---- MODULE Spec2Model ----
(***************************************************************************)
(* Model of the voicenote Rust core (src/ui/src-tauri/src/commands.rs):    *)
(* the job index (in memory and on disk), the single-consumer worker       *)
(* queue, the pipeline executor process_job, the subprocess output         *)
(* readers, cancel/delete/summarize requests and the download status map.  *)
(*                                                                         *)
(* Every critical section of a mutex is one atomic action.  Progress       *)
(* values are kept in thousandths (0.1 = 100, 1.0 = 1000).  Job ids are    *)
(* the microsecond clock reading taken by generate_job_id; the clock       *)
(* advances between two creations (each creation copies a file).  The      *)
(* fire-and-forget job:log notifications carry no state and are left out;  *)
(* the job:updated notifications are recorded in emittedUpdated.           *)
(***************************************************************************)
EXTENDS Integers, Sequences, FiniteSets, Bags, TLC

\* ---------------------------------------------------------------- bounds
MaxJobs == 2
MaxCancels == 1
MaxDeletes == 1
MaxSaveFails == 1
MaxStdoutLines == 2
MaxStderrLines == 1
MaxFaults == 1
MaxSummarize == 1
MaxAppends == 2100
MaxStarts == 3
MaxChunks == 2
MaxDlFaults == 1
MaxClips == 2
MaxStalls == 1
MaxIndexJobs == 2
MaxSegments == 2
MaxConfigs == 1
MaxLockThreads == 3

\* ------------------------------------------------------ program constants
LogCap == 2000

VARIABLES
  jobs,            \* JobIndex.jobs held under JobIndexState.index (newest first)
  disk,            \* content of index.json: [valid, jobs]
  queue,           \* ids in the mpsc channel, oldest first
  clock,           \* microsecond clock read by generate_job_id
  worker,          \* the consumer thread: position in process_job and its locals
  stderrOpen,      \* ids for which a whisper stderr reader thread was spawned
  config,          \* AppConfig held under ConfigState.config
  summ,            \* bag of running summarization activities
  emittedUpdated,  \* every job:updated payload raised so far
  emittedLog,      \* every job:log payload raised by a store mutation
  savedEver,       \* every job state that a successful index save has written
  enqueued,        \* ids passed to JobQueueState::enqueue, in order
  began,           \* ids for which process_job was entered, in order
  returned,        \* ids for which process_job has returned, in order
  erred,           \* ids for which process_job returned Err
  saveFails,       \* index saves that may still fail (bound)
  budget,          \* requests and external events still to come (bounds)
  testJob,         \* the job of the log_buffer_is_bounded test
  appended,        \* number of push_log calls made on testJob
  statuses,        \* ModelDownloadState.statuses: artifact key -> status
  dlThreads,       \* bag of background download threads
  artifacts,       \* temporary and destination files of the downloads
  dlReply,         \* the answer to the latest start-download request
  dlBudget,        \* download requests and transfer events still to come
  jobFiles,        \* files present in the job directories: <<job id, name>>
  clip,            \* the get_clip_path call under way: position and job
  call,            \* a function called on its own: argument, files, result
  ret,             \* what the latest cancel_job call returned, and for which id
  lockOwner,       \* the thread holding each of the three mutexes, if any
  threadAt         \* position of each thread in its sequence of lock operations

logVars == <<testJob, appended>>
dlVars == <<statuses, dlThreads, artifacts, dlReply, dlBudget>>
fsVars == <<jobFiles>>
cmdVars == <<clip, call, ret>>
lockVars == <<lockOwner, threadAt>>
auxVars == <<logVars, dlVars, fsVars, cmdVars, lockVars>>

vars == <<jobs, disk, queue, clock, worker, stderrOpen, config, summ,
          emittedUpdated, emittedLog, savedEver, enqueued, began, returned, erred,
          saveFails, budget, auxVars>>

\* ------------------------------------------------------------ job records
Terminal == {"done", "error", "cancelled"}

\* Position of the first job with this id (Vec::iter().find), 0 when absent.
IndexOf(js, id) ==
  IF \E i \in 1..Len(js) : js[i].id = id
    THEN CHOOSE i \in 1..Len(js) :
           js[i].id = id /\ \A k \in 1..(i - 1) : js[k].id # id
    ELSE 0

HasJob(js, id) == IndexOf(js, id) # 0

JobOf(js, id) == js[IndexOf(js, id)]

\* A buffer that stops taking lines at the cap instead of draining the oldest.
push_log_keeps_oldest(job, line) ==
  LET pushed == Append(job.logs, line)
  IN [job EXCEPT !.logs = IF Len(pushed) > LogCap
                            THEN SubSeq(pushed, 1, LogCap)
                            ELSE pushed]

push_log(job, line) ==
  LET pushed == Append(job.logs, line)
      excess == Len(pushed) - LogCap
  IN [job EXCEPT !.logs = IF Len(pushed) > LogCap
                            THEN SubSeq(pushed, excess + 1, Len(pushed))
                            ELSE pushed]

\* The Job built by create_job_from_path_inner, "Queued for processing." pushed.
NewJob(id) ==
  push_log([id |-> id, status |-> "queued", progress |-> 0, stage |-> "import",
            logs |-> <<>>, transcript_txt_path |-> "", transcript_json_path |-> "",
   transcript_srt_path |-> "", md_preview |-> "",
            summary_status |-> "not_started", summary_error |-> "",
            summary_md |-> ""],
           "Queued for processing.")

generate_job_id(now) == now

\* --------------------------------------------------------------- job store
\* Outcome of one save_index_to_disk call: File::create may fail (document
\* untouched) or write_all may fail after the truncation (document unusable).
SaveOutcomes == IF saveFails > 0 THEN {"ok", "create_failed", "write_failed"}
                                 ELSE {"ok"}

save_index_to_disk(d, index, outcome) ==
  CASE outcome = "ok" -> [valid |-> TRUE, jobs |-> index]
    [] outcome = "create_failed" -> d
    [] OTHER -> [valid |-> FALSE, jobs |-> <<>>]

JobStates(index) == {index[i] : i \in 1..Len(index)}

\* The store as one value, so that a helper can return the store it leaves.
Store == [jobs |-> jobs, disk |-> disk, saved |-> savedEver,
          updated |-> emittedUpdated, log |-> emittedLog, ok |-> TRUE]

\* Write the index of store st; on success every job state in it is on disk.
Saved(st, index, outcome) ==
  [st EXCEPT !.jobs = index,
             !.disk = save_index_to_disk(st.disk, index, outcome),
             !.saved = IF outcome = "ok" THEN st.saved \cup JobStates(index)
                                         ELSE st.saved,
             !.ok = (outcome = "ok")]

emit_job_updated(st, job) == [st EXCEPT !.updated = st.updated \cup {job}]

\* The event raised before the result of the save is looked at.
update_job_and_emit_unsaved(st, job_id, mutator, outcome) ==
  LET i == IndexOf(st.jobs, job_id) IN
  IF i = 0
    THEN st
    ELSE LET job == mutator[st.jobs[i]]
             s1 == Saved(st, [st.jobs EXCEPT ![i] = job], outcome)
         IN emit_job_updated(s1, job)

\* The job is mutated and the index saved; job:updated follows the save and
\* is skipped when the save fails (the ? operator returns first).
update_job_and_emit(st, job_id, mutator, outcome) ==
  LET i == IndexOf(st.jobs, job_id) IN
  IF i = 0
    THEN st
    ELSE LET job == mutator[st.jobs[i]]
             s1 == Saved(st, [st.jobs EXCEPT ![i] = job], outcome)
         IN IF s1.ok THEN emit_job_updated(s1, job) ELSE s1

\* Apply a store value returned by a helper.
SetStore(st) ==
  /\ jobs' = st.jobs
  /\ disk' = st.disk
  /\ savedEver' = st.saved
  /\ emittedUpdated' = st.updated
  /\ emittedLog' = st.log
  /\ saveFails' = IF st.ok THEN saveFails ELSE saveFails - 1

emit_job_log(st, job_id, line) ==
  [st EXCEPT !.log = st.log \cup {[id |-> job_id, line |-> line]}]

\* job:log follows the Ok of update_job_and_emit, which is what a job that is
\* not in the index gives as well.
append_job_log(st, job_id, line, outcome) ==
  LET Mut == [job \in JobStates(st.jobs) |-> push_log(job, line)]
      s1 == update_job_and_emit(st, job_id, Mut, outcome)
  IN IF s1.ok THEN emit_job_log(s1, job_id, line) ELSE s1

storeVars == <<jobs, disk, savedEver, emittedUpdated, emittedLog, saveFails>>
queueVars == <<queue, enqueued>>
workerVars == <<worker, began, returned, erred>>

Spend(field) == budget' = [budget EXCEPT ![field] = @ - 1]

\* ---------------------------------------------------------------- requests
\* What SystemTime::now() may return: a later microsecond, or the one of
\* the previous reading when the clock has not moved on.
Readings == {clock + 1} \cup (IF budget.stalls > 0 /\ clock > 0 THEN {clock} ELSE {})

\* A variant that adds the job after the ones the index holds.
insert_back(js, job) == Append(js, job)

\* guard.jobs.insert(0, job)
insert_front(js, job) == <<job>> \o js

\* create_job_from_path, or one iteration of add_files: the job is inserted
\* at the front, the index saved, job:updated raised, and the id enqueued.
CreateJob ==
  /\ budget.creates > 0
  /\ \E now \in Readings, copied \in BOOLEAN, outcome \in SaveOutcomes :
       LET id == generate_job_id(now)
           job == NewJob(id)
           st == Saved(Store, insert_front(jobs, job), outcome)
       IN /\ clock' = now
          /\ budget' = [budget EXCEPT !.creates = @ - 1,
                                      !.stalls = IF now = clock THEN @ - 1 ELSE @]
          /\ IF ~copied
               THEN UNCHANGED <<storeVars, queueVars>>
               ELSE /\ SetStore(IF st.ok THEN emit_job_updated(st, job) ELSE st)
                    /\ IF st.ok
                         THEN /\ queue' = Append(queue, id)
                              /\ enqueued' = Append(enqueued, id)
                         ELSE UNCHANGED queueVars
  /\ UNCHANGED <<auxVars, workerVars, stderrOpen, config, summ>>

\* A variant that leaves the stage as it was.
CancelledStatusOnly(job) ==
  push_log([job EXCEPT !.status = "cancelled"], "Job cancelled.")

\* What cancel_job writes into the job it has found.
Cancelled(job) ==
  push_log([job EXCEPT !.status = "cancelled", !.stage = "cancelled"],
           "Job cancelled.")

\* No cancel_job call has returned yet.
NoReturn == [id |-> 0, result |-> ""]

\* cancel_job: Ok(false) without the job; otherwise the job is marked, the
\* index saved (Err when the save fails), job:updated raised and Ok(true)
\* returned.
cancel_job(id) ==
  /\ budget.cancels > 0
  /\ Spend("cancels")
  /\ \E outcome \in SaveOutcomes :
       LET i == IndexOf(jobs, id)
           job == Cancelled(jobs[i])
           st == Saved(Store, [jobs EXCEPT ![i] = job], outcome)
       IN IF i = 0
            THEN /\ UNCHANGED storeVars
                 /\ ret' = [id |-> id, result |-> "Ok(false)"]
            ELSE /\ SetStore(IF st.ok THEN emit_job_updated(st, job) ELSE st)
                 /\ ret' = [id |-> id,
                            result |-> IF st.ok THEN "Ok(true)" ELSE "Err"]
  /\ UNCHANGED <<logVars, dlVars, fsVars, lockVars, clip, call, queueVars,
                 workerVars, clock, stderrOpen, config, summ>>

Retain(js, id) == SelectSeq(js, LAMBDA job : job.id # id)

delete_job(id) ==
  /\ budget.deletes > 0
  /\ Spend("deletes")
  /\ \E outcome \in SaveOutcomes :
       LET kept == Retain(jobs, id) IN
       IF Len(kept) # Len(jobs)
         THEN SetStore(Saved(Store, kept, outcome))
         ELSE UNCHANGED storeVars
  /\ UNCHANGED <<auxVars, queueVars, workerVars, clock, stderrOpen, config, summ>>

\* ------------------------------------------------------ subprocess output
\* Lines the speech engine may print on stdout, and their whitespace-split
\* tokens: pct = the token ends with '%', parses = the rest parses as f32.
Word == [pct |-> FALSE, parses |-> FALSE, val |-> 0]
Num(v) == [pct |-> FALSE, parses |-> TRUE, val |-> v]
Pct(v) == [pct |-> TRUE, parses |-> TRUE, val |-> v]
WordPct == [pct |-> TRUE, parses |-> FALSE, val |-> 0]

StdoutLines == {"load time = 20 ms", "progress = 50%", "done% 150%"}

Tokens(line) ==
  CASE line = "load time = 20 ms" -> <<Word, Word, Word, Num(20), Word>>
    [] line = "progress = 50%" -> <<Word, Word, Pct(50)>>
    [] line = "done% 150%" -> <<WordPct, Pct(150)>>
    [] OTHER -> <<>>

Max(a, b) == IF a >= b THEN a ELSE b
Min(a, b) == IF a <= b THEN a ELSE b

RECURSIVE FirstPercent(_)
FirstPercent(tokens) ==
  IF tokens = <<>> THEN <<>>
  ELSE IF Head(tokens).pct /\ Head(tokens).parses
         THEN <<Min(Max(Head(tokens).val, 0), 100)>>
         ELSE FirstPercent(Tail(tokens))

\* Option<f32> as a sequence of length 0 or 1, the value in percent.
parse_progress_from_line(line) == FirstPercent(Tokens(line))

\* run_whisper_cpp: mapped = 0.3 + (progress / 100.0) * 0.6, in thousandths.
\* The percentage taken as the fraction of the whole run.
MappedProgressUnscaled(pct) == 300 + pct * 10

MappedProgress(pct) == 300 + pct * 6

\* The same computation in f32.  A value between 0 and 1 is the number of
\* 2^-26 it holds; the representable values are the multiples of 4 from 0.5
\* up, of 2 from 0.25 up, and every count below.  F32One is 1.0, the
\* progress of a finished job.
F32One == 67108864
F32Half == F32One \div 2
F32Quarter == F32One \div 4

\* The literals 0.3 (0x3E99999A) and 0.6 (0x3F19999A).
F32_0_3 == 20132660
F32_0_6 == 40265320

\* Round to nearest, ties to even.
RoundF32(n) ==
  LET step == IF n >= F32Half THEN 4 ELSE IF n >= F32Quarter THEN 2 ELSE 1
      low == (n \div step) * step
      rest == n - low
  IN IF 2 * rest < step THEN low
     ELSE IF 2 * rest > step THEN low + step
     ELSE IF (low \div step) % 2 = 0 THEN low ELSE low + step

\* progress / 100.0 for a percentage that is a multiple of 25: the quotient
\* is a number of quarters and exact.
div_100(progress) == (progress \div 25) * F32Quarter

\* q * 0.6 for q a number of quarters.
mul_0_6(q) == RoundF32((q \div F32Quarter) * (F32_0_6 \div 4))

\* The scaled percentage without the 0.3 the stage starts from.
mapped_without_offset(progress) == mul_0_6(div_100(progress))

\* let mapped = 0.3 + (progress / 100.0) * 0.6;
mapped(progress) == RoundF32(F32_0_3 + mul_0_6(div_100(progress)))

\* The stdout lines of one run whose percentages are multiples of 25.
ProgressLines ==
  {<<Word, Word, Pct(v)>> : v \in {-25, 0, 25, 50, 75, 100, 125}}
  \cup {<<WordPct, Pct(100)>>, <<Word, Num(20), Word>>}

\* ------------------------------------------------------------- the worker
\* at_start is the configuration as it was on entry to process_job; model is
\* the model file resolve_whisper_paths was asked for.
Idle == [pc |-> "idle", job_id |-> 0, enable |-> FALSE, auto |-> FALSE,
         model_size |-> "", ollama |-> <<>>, at_start |-> <<>>, model |-> "",
         snap |-> <<>>, line |-> ""]

\* A loop that propagates the error of process_job and so ends the thread.
ReturnStops(err) ==
  /\ worker' = IF err THEN [Idle EXCEPT !.pc = "stopped"] ELSE Idle
  /\ returned' = Append(returned, worker.job_id)
  /\ erred' = IF err THEN erred \cup {worker.job_id} ELSE erred
  /\ began' = began

\* process_job returns to the loop of spawn_worker, which only raises a
\* job:log event when the result is Err and then waits for the next id.
Return(err) ==
  /\ worker' = Idle
  /\ returned' = Append(returned, worker.job_id)
  /\ erred' = IF err THEN erred \cup {worker.job_id} ELSE erred
  /\ began' = began

Goto(pc) ==
  /\ worker' = [worker EXCEPT !.pc = pc]
  /\ UNCHANGED <<auxVars, began, returned, erred>>

\* for job_id in receiver { process_job(..) }: the config snapshot is taken
\* on entry to process_job.
WorkerDequeue ==
  /\ worker.pc = "idle"
  /\ queue # <<>>
  /\ queue' = Tail(queue)
  /\ began' = Append(began, Head(queue))
  /\ worker' = [Idle EXCEPT !.pc = "start", !.job_id = Head(queue),
                            !.enable = config.enable_summarization,
                            !.auto = config.auto_summarize,
                            !.model_size = config.model_size,
                            !.ollama = config.ollama,
                            !.at_start = <<config>>]
  /\ UNCHANGED <<auxVars, storeVars, enqueued, returned, erred, clock, stderrOpen,
                 config, summ, budget>>

\* process_job, first critical section: the job is set running/convert/0.1.
\* Without the job there is no job directory and process_job returns Err.
WorkerStart ==
  /\ worker.pc = "start"
  /\ \E outcome \in SaveOutcomes :
       LET i == IndexOf(jobs, worker.job_id)
           job == push_log([jobs[i] EXCEPT !.status = "running",
                                           !.stage = "convert",
                                           !.progress = 100],
                           "Worker started.")
           st == Saved(Store, [jobs EXCEPT ![i] = job], outcome)
       IN IF i = 0
            THEN /\ Return(TRUE)
                 /\ UNCHANGED storeVars
            ELSE /\ SetStore(st)
                 /\ IF st.ok
                      THEN /\ worker' = [worker EXCEPT !.pc = "start_emit",
                                                       !.snap = <<job>>]
                           /\ UNCHANGED <<began, returned, erred>>
                      ELSE Return(TRUE)
  /\ UNCHANGED <<auxVars, queueVars, clock, stderrOpen, config, summ, budget>>

\* The snapshot is emitted after the lock has been released.
WorkerStartEmit ==
  /\ worker.pc = "start_emit"
  /\ emittedUpdated' = emittedUpdated \cup {worker.snap[1]}
  /\ worker' = [worker EXCEPT !.pc = "convert", !.snap = <<>>]
  /\ UNCHANGED <<auxVars, jobs, disk, savedEver, emittedLog, saveFails, queueVars,
                 began, returned, erred, clock, stderrOpen, config, summ, budget>>

\* A variant that logs the message and leaves status and stage alone.
mark_error_log_only(st, job_id, message, outcome) ==
  append_job_log(st, job_id, message, outcome)

\* mark_error: the job is set error/error with the message in its log; a
\* failed save makes process_job return Err, otherwise it returns Ok.
mark_error(st, job_id, message, outcome) ==
  LET Mut == [job \in JobStates(st.jobs) |->
                push_log([job EXCEPT !.status = "error", !.stage = "error"],
                         message)]
      s1 == update_job_and_emit(st, job_id, Mut, outcome)
  IN IF s1.ok THEN emit_job_log(s1, job_id, message) ELSE s1

StageFailed(message) ==
  \E outcome \in SaveOutcomes :
    LET st == mark_error(Store, worker.job_id, message, outcome) IN
    /\ SetStore(st)
    /\ Return(~st.ok)

StageResults(failures) == IF budget.faults > 0 THEN {"ok"} \cup failures
                                               ELSE {"ok"}

\* A fallible external step of the worker: ok moves on, a failure is marked.
Stage(failures, next) ==
  \E res \in StageResults(failures) :
    IF res = "ok"
      THEN /\ Goto(next)
           /\ UNCHANGED <<storeVars, budget>>
      ELSE /\ StageFailed(res)
           /\ Spend("faults")

\* resolve_ffmpeg_path and convert_to_wav.
WorkerConvert ==
  /\ worker.pc = "convert"
  /\ Stage({"FFmpeg not found.", "ffmpeg convert failed"}, "transcribe")
  /\ UNCHANGED <<auxVars, queueVars, clock, stderrOpen, config, summ>>

\* The stage becomes transcribe at progress 0.3; the result is ignored.
WorkerTranscribe ==
  /\ worker.pc = "transcribe"
  /\ \E outcome \in SaveOutcomes :
       LET Mut == [job \in JobStates(jobs) |->
                     [job EXCEPT !.stage = "transcribe", !.progress = 300]]
       IN SetStore(update_job_and_emit(Store, worker.job_id, Mut, outcome))
  /\ Goto("whisper")
  /\ UNCHANGED <<auxVars, queueVars, clock, stderrOpen, config, summ, budget>>

\* resolve_whisper_paths, then run_whisper_cpp spawns the subprocess and the
\* detached stderr reader.
model_name(model_size) == "ggml-" \o model_size \o ".bin"

\* The model size of the configuration as it is now.
ModelSizeNow == config.model_size

\* The model size process_job passes to resolve_whisper_paths: its local.
ModelSizeUsed == worker.model_size

WorkerWhisperSpawn ==
  /\ worker.pc = "whisper"
  /\ \E res \in StageResults({"Whisper binary/model not found."}) :
       IF res = "ok"
         THEN /\ worker' = [worker EXCEPT !.pc = "stdout",
                                          !.model = model_name(ModelSizeUsed)]
              /\ UNCHANGED <<storeVars, budget, began, returned, erred>>
         ELSE /\ StageFailed(res)
              /\ Spend("faults")
  /\ stderrOpen' = IF worker'.pc = "stdout"
                     THEN stderrOpen \cup {worker.job_id} ELSE stderrOpen
  /\ UNCHANGED <<auxVars, queueVars, clock, config, summ>>

\* One stdout line is read; a percentage in it is mapped and stored.
WorkerStdoutLine ==
  /\ worker.pc = "stdout"
  /\ budget.stdout > 0
  /\ Spend("stdout")
  /\ \E line \in StdoutLines, outcome \in SaveOutcomes :
       LET pct == parse_progress_from_line(line)
           Mut == [job \in JobStates(jobs) |->
                     [job EXCEPT !.stage = "transcribe",
                                 !.progress = MappedProgress(pct[1])]]
       IN /\ IF pct # <<>>
               THEN SetStore(update_job_and_emit(Store, worker.job_id, Mut,
                                                 outcome))
               ELSE UNCHANGED storeVars
          /\ worker' = [worker EXCEPT !.pc = "stdout_log", !.line = line]
  /\ UNCHANGED <<auxVars, queueVars, began, returned, erred, clock, stderrOpen, config,
                 summ>>

\* The line just read is appended to the job's log.
WorkerStdoutLog ==
  /\ worker.pc = "stdout_log"
  /\ \E outcome \in SaveOutcomes :
       SetStore(append_job_log(Store, worker.job_id, worker.line, outcome))
  /\ worker' = [worker EXCEPT !.pc = "stdout", !.line = ""]
  /\ UNCHANGED <<auxVars, queueVars, began, returned, erred, clock, stderrOpen, config,
                 summ, budget>>

\* stdout is closed and child.wait() returns the exit status.
WorkerWhisperExit ==
  /\ worker.pc = "stdout"
  /\ Stage({"whisper failed"}, "outputs")
  /\ UNCHANGED <<auxVars, queueVars, clock, stderrOpen, config, summ>>

\* The stderr reader thread appends one line.
StderrLine(id) ==
  /\ id \in stderrOpen
  /\ budget.stderr > 0
  /\ Spend("stderr")
  /\ \E outcome \in SaveOutcomes :
       SetStore(append_job_log(Store, id, "whisper_init: stderr", outcome))
  /\ UNCHANGED <<auxVars, queueVars, workerVars, clock, stderrOpen, config, summ>>

\* ------------------------------------------------- completion of the job
\* The files whisper writes next to output_base = job_dir/whisper.
WhisperOutputs == <<"whisper.txt", "whisper.json", "whisper.srt">>

\* A variant that hands back no paths.
write_stub_artifacts_nowhere == <<"", "", "">>

\* write_stub_artifacts: the three placeholder files of the job directory.
write_stub_artifacts == <<"transcript.txt", "segments.json", "transcript.srt">>

Written(id, paths) == {<<id, paths[n]>> : n \in 1..3}

\* After a successful exit the output files are looked up; when one is
\* missing the stub artifacts are written; the job is set done/done/1.0.
WorkerOutputs ==
  /\ worker.pc = "outputs"
  /\ \E files \in StageResults({"absent", "absent, stub not written"}),
        outcome \in SaveOutcomes :
       LET i == IndexOf(jobs, worker.job_id)
           finished == [jobs[i] EXCEPT !.progress = 1000, !.status = "done",
                                       !.stage = "done"]
           paths == IF files = "ok" THEN WhisperOutputs ELSE write_stub_artifacts
           real == push_log([finished EXCEPT
                               !.transcript_txt_path = paths[1],
                               !.transcript_json_path = paths[2],
                               !.transcript_srt_path = paths[3],
                               !.md_preview = "Transcript ready.",
                               !.summary_status =
                                  IF worker.enable THEN "not_started"
                                                   ELSE "skipped"],
                            "Whisper finished.")
           stub == push_log([finished EXCEPT
                               !.transcript_txt_path = paths[1],
                               !.transcript_json_path = paths[2],
                               !.transcript_srt_path = paths[3],
                               !.md_preview = "Stub transcript from Rust core.",
                               !.summary_status = "skipped"],
                            "Worker finished (stub).")
           job == IF files = "ok" THEN real ELSE stub
           st == Saved(Store, [jobs EXCEPT ![i] = job], outcome)
           next == IF files = "ok" THEN "done_emit" ELSE "stub_emit"
       IN /\ IF files = "ok" THEN UNCHANGED budget ELSE Spend("faults")
          /\ jobFiles' = IF files = "absent, stub not written"
                           THEN jobFiles
                           ELSE jobFiles \cup Written(worker.job_id, paths)
          /\ IF files = "absent, stub not written"
               THEN /\ Return(TRUE)
                    /\ UNCHANGED storeVars
               ELSE IF i = 0
                 THEN /\ worker' = [worker EXCEPT !.pc = next, !.snap = <<>>]
                      /\ UNCHANGED <<storeVars, began, returned, erred>>
                 ELSE /\ SetStore(st)
                      /\ IF st.ok
                           THEN /\ worker' = [worker EXCEPT !.pc = next,
                                                            !.snap = <<job>>]
                                /\ UNCHANGED <<began, returned, erred>>
                           ELSE Return(TRUE)
  /\ UNCHANGED <<logVars, dlVars, cmdVars, lockVars, queueVars, clock,
                 stderrOpen, config, summ>>

EmitSnapshot ==
  emittedUpdated' = emittedUpdated \cup
                      {worker.snap[i] : i \in 1..Len(worker.snap)}

\* Stub path: the snapshot is emitted and process_job returns Ok.
WorkerStubEmit ==
  /\ worker.pc = "stub_emit"
  /\ EmitSnapshot
  /\ Return(FALSE)
  /\ UNCHANGED <<auxVars, jobs, disk, savedEver, emittedLog, saveFails, queueVars, clock,
                 stderrOpen, config, summ, budget>>

\* A summarization activity: a summarize_job request (pc cmd_mark) or a
\* summarize_job_internal thread (pc guard, mark, snapshot, final).
SummThread(id, force, ollama) ==
  [job_id |-> id, force |-> force, pc |-> IF force THEN "mark" ELSE "guard",
   ollama |-> ollama]

\* Normal path: the snapshot is emitted, the summarization thread is spawned
\* when enabled and automatic, and process_job returns Ok.
WorkerDoneEmit ==
  /\ worker.pc = "done_emit"
  /\ EmitSnapshot
  /\ summ' = IF worker.enable /\ worker.auto
               THEN summ (+) SetToBag({SummThread(worker.job_id, FALSE,
                                                  worker.ollama)})
               ELSE summ
  /\ Return(FALSE)
  /\ UNCHANGED <<auxVars, jobs, disk, savedEver, emittedLog, saveFails, queueVars, clock,
                 stderrOpen, config, budget>>

\* ------------------------------------------------------------ summarization
otherVars == <<queueVars, workerVars, clock, stderrOpen, config, auxVars>>

\* summarize_job: skipped when disabled; returns the stored status when a
\* run is in flight; otherwise goes on to mark the job running.
summarize_job(id) ==
  /\ budget.summarize > 0
  /\ Spend("summarize")
  /\ LET i == IndexOf(jobs, id) IN
     IF ~config.enable_summarization
          \/ (i # 0 /\ jobs[i].summary_status = "running")
       THEN summ' = summ
       ELSE summ' = summ (+) SetToBag({[job_id |-> id, force |-> TRUE,
                                        pc |-> "cmd_mark",
                                        ollama |-> config.ollama]})
  /\ UNCHANGED <<storeVars, otherVars>>

Move(t, pc) == (summ (-) SetToBag({t})) (+) SetToBag({[t EXCEPT !.pc = pc]})

Drop(t) == summ (-) SetToBag({t})

\* summarize_job, second critical section: running is stored and the forced
\* thread is spawned.
SummarizeJobMark(t) ==
  /\ t.pc = "cmd_mark"
  /\ \E outcome \in SaveOutcomes :
       LET Mut == [job \in JobStates(jobs) |->
                     [job EXCEPT !.summary_status = "running",
                                 !.summary_error = ""]]
           st == update_job_and_emit(Store, t.job_id, Mut, outcome)
       IN /\ SetStore(st)
          /\ summ' = IF st.ok THEN Move(t, "mark") ELSE Drop(t)
  /\ UNCHANGED <<otherVars, budget>>

\* summarize_job_internal with force = false: nothing is started when a run
\* is in flight or a summary is already stored.
SummGuard(t) ==
  /\ t.pc = "guard"
  /\ LET i == IndexOf(jobs, t.job_id) IN
     IF i # 0 /\ (jobs[i].summary_status = "running"
                  \/ (jobs[i].summary_status = "done"
                      /\ jobs[i].summary_md # ""))
       THEN summ' = Drop(t)
       ELSE summ' = Move(t, "mark")
  /\ UNCHANGED <<storeVars, otherVars, budget>>

SummMark(t) ==
  /\ t.pc = "mark"
  /\ \E outcome \in SaveOutcomes :
       LET Mut == [job \in JobStates(jobs) |->
                     [job EXCEPT !.summary_status = "running"]]
           st == update_job_and_emit(Store, t.job_id, Mut, outcome)
       IN /\ SetStore(st)
          /\ summ' = IF st.ok THEN Move(t, "snapshot") ELSE Drop(t)
  /\ UNCHANGED <<otherVars, budget>>

\* The transcript path and job directory are read; the thread returns Err
\* when the job is gone or its transcript path is empty.
SummSnapshot(t) ==
  /\ t.pc = "snapshot"
  /\ LET i == IndexOf(jobs, t.job_id) IN
     IF i = 0 \/ jobs[i].transcript_txt_path = ""
       THEN summ' = Drop(t)
       ELSE summ' = Move(t, "final")
  /\ UNCHANGED <<storeVars, otherVars, budget>>

\* A variant in which a failed summary fails the job.
SummaryErrorFailsJob(job, err) ==
  [job EXCEPT !.summary_status = "error", !.summary_error = err,
              !.status = "error", !.stage = "error"]

\* The mutator of a failed run: only the summary fields are written.
SummaryError(job, err) ==
  [job EXCEPT !.summary_status = "error", !.summary_error = err]

\* The transcript is read, the generation request made and summary.md
\* written; the outcome is stored in the job.
SummFinal(t) ==
  /\ t.pc = "final"
  /\ \E success \in BOOLEAN, outcome \in SaveOutcomes :
       LET Summarized == [job \in JobStates(jobs) |->
                            [job EXCEPT !.summary_status = "done",
                                        !.summary_md = "summary",
                                        !.summary_error = "",
                                        !.md_preview = "summary"]]
           Unreachable == [job \in JobStates(jobs) |->
                             SummaryError(job, "Ollama not reachable")]
       IN SetStore(update_job_and_emit(Store, t.job_id,
                                       IF success THEN Summarized ELSE Unreachable,
                                       outcome))
  /\ summ' = Drop(t)
  /\ UNCHANGED <<otherVars, budget>>

\* ---------------------------------------------------------- configuration
\* update_config: the configuration is replaced under the config lock, then
\* saved; a failed save returns Err with the new configuration in place.
update_config(cfg) ==
  /\ budget.configs > 0
  /\ Spend("configs")
  /\ config' = cfg
  /\ UNCHANGED <<storeVars, queueVars, workerVars, clock, stderrOpen, summ,
                 auxVars>>

\* ------------------------------------------------------------------ clips
\* get_clip_path takes the index lock on entry and keeps the guard until it
\* returns; pc is where the call stands.
NoClip == [pc |-> "idle", job_id |-> 0]

\* The call holds the index lock.
HoldsIndex(c) == c.pc \in {"resolve", "ffmpeg -version", "ffmpeg -ss -to"}

\* The call waits for a subprocess it has run.
InSubprocess(c) == c.pc \in {"ffmpeg -version", "ffmpeg -ss -to"}

clipVars == <<storeVars, queueVars, workerVars, clock, stderrOpen, config, summ,
              logVars, dlVars, fsVars, lockVars, call, ret>>

\* The lock is taken and the job looked up: Err when there is none.
get_clip_path(id) ==
  /\ clip.pc = "idle"
  /\ budget.clips > 0
  /\ Spend("clips")
  /\ clip' = IF HasJob(jobs, id) THEN [pc |-> "resolve", job_id |-> id]
                                  ELSE NoClip
  /\ UNCHANGED clipVars

\* resolve_ffmpeg_path: without a binary the full audio path is returned;
\* the first binary found is asked for its version.
ClipResolve ==
  /\ clip.pc = "resolve"
  /\ \E found \in BOOLEAN :
       clip' = IF found THEN [clip EXCEPT !.pc = "ffmpeg -version"] ELSE NoClip
  /\ UNCHANGED <<clipVars, budget>>

\* ensure_lgpl_ffmpeg ends; ensure_clip returns a clip made earlier or runs
\* ffmpeg to cut it.
ClipVersion ==
  /\ clip.pc = "ffmpeg -version"
  /\ \E lgpl \in BOOLEAN, made \in BOOLEAN :
       clip' = IF lgpl /\ ~made THEN [clip EXCEPT !.pc = "ffmpeg -ss -to"]
                                ELSE NoClip
  /\ UNCHANGED <<clipVars, budget>>

\* ffmpeg ends and the call returns the clip or the full audio path.
ClipCut ==
  /\ clip.pc = "ffmpeg -ss -to"
  /\ clip' = NoClip
  /\ UNCHANGED <<clipVars, budget>>

\* ---------------------------------------------------------------- downloads
model_filename(model_size) ==
  CASE model_size = "tiny" -> "ggml-tiny.bin"
    [] model_size = "base" -> "ggml-base.bin"
    [] model_size = "small" -> "ggml-small.bin"
    [] model_size = "medium" -> "ggml-medium.bin"
    [] model_size = "large-v3" -> "ggml-large-v3.bin"
    [] OTHER -> "Err"

model_url(model_size) ==
  <<"https://", "huggingface.co/ggerganov/whisper.cpp/resolve/main/",
    model_filename(model_size), "?download=true">>

whisper_binary_status_key == "whisper-binary"
ffmpeg_status_key == "ffmpeg"

now_ts(now) == now

\* ------------------------------------------------------------------ URLs
\* A URL, a file name or a page is the sequence of its pieces, cut so that
\* every text the code searches for ("github.com/", "/releases", ".zip",
\* "arm64", ...) is a run of whole pieces; a blank is the piece " ".
RECURSIVE TrimStart(_)
TrimStart(text) ==
  IF text # <<>> /\ Head(text) = " " THEN TrimStart(Tail(text)) ELSE text

RECURSIVE TrimEnd(_)
TrimEnd(text) ==
  IF text # <<>> /\ text[Len(text)] = " "
    THEN TrimEnd(SubSeq(text, 1, Len(text) - 1))
    ELSE text

Trim(text) == TrimEnd(TrimStart(text))

StartsAt(str, sub, i) ==
  i + Len(sub) - 1 <= Len(str) /\ SubSeq(str, i, i + Len(sub) - 1) = sub

\* str[from..].find(sub): the first position at or after from, 0 for None.
FindFrom(str, sub, from) ==
  LET P == {i \in from..Len(str) : StartsAt(str, sub, i)}
  IN IF P = {} THEN 0 ELSE CHOOSE i \in P : \A k \in P : i <= k

Contains(str, sub) == FindFrom(str, sub, 1) # 0

EndsWith(str, sub) ==
  Len(sub) <= Len(str) /\ SubSeq(str, Len(str) - Len(sub) + 1, Len(str)) = sub

\* str.replace(from, to) for a text that is one piece.
Replace(str, from, to) ==
  [i \in 1..Len(str) |-> IF str[i] = from THEN to ELSE str[i]]

\* str.to_lowercase() on the pieces that have capitals.
to_lowercase(str) ==
  [i \in 1..Len(str) |->
     CASE str[i] = "macOS" -> "macos"
       [] str[i] = "ARM64" -> "arm64"
       [] str[i] = ".ZIP" -> ".zip"
       [] OTHER -> str[i]]

\* url.replace("http://", "https://")
Https(url) == Replace(url, "http://", "https://")

\* url.to_lowercase().ends_with(".zip")
IsZip(url) == EndsWith(to_lowercase(url), <<".zip">>)

is_macos_arm_asset(name) ==
  LET name_lc == to_lowercase(name)
      is_arm == \E p \in {"arm64", "aarch64"} : Contains(name_lc, <<p>>)
      is_macos == \E p \in {"macos", "osx", "darwin", "apple"} :
                    Contains(name_lc, <<p>>)
  IN is_arm /\ is_macos /\ EndsWith(name_lc, <<".zip">>)

ApiMarker == <<"api.", "github.com/", "repos/">>

\* github_repo_from_api: the owner and the repository are the first two
\* parts of what follows the marker (one piece each, "/" between them);
\* Option as a sequence of length 0 or 1.
github_repo_from_api(url) ==
  LET at == FindFrom(url, ApiMarker, 1)
      rest == SubSeq(url, at + Len(ApiMarker), Len(url))
  IN IF at = 0 \/ Len(rest) < 3 \/ rest[2] # "/"
       THEN <<>>
       ELSE <<(<<"https://", "github.com/", rest[1], "/", rest[3]>>)>>

TagDelimiters == {"\"", "'", "?", "#", "<", " "}

\* extract_latest_tag: what follows the first "/releases/tag/" up to a
\* delimiter, when it is not empty.
RECURSIVE ExtractTagFrom(_, _)
ExtractTagFrom(html, idx) ==
  LET needle == <<"/releases", "/tag/">>
      pos == FindFrom(html, needle, idx)
      start == pos + Len(needle)
      Stops == {i \in start..Len(html) : html[i] \in TagDelimiters}
      end == IF Stops = {} THEN Len(html) + 1
                           ELSE CHOOSE i \in Stops : \A k \in Stops : i <= k
  IN IF pos = 0 THEN <<>>
     ELSE IF end > start THEN <<SubSeq(html, start, end - 1)>>
     ELSE ExtractTagFrom(html, start)

extract_latest_tag(html) == ExtractTagFrom(html, 1)

\* The scan of the releases page: each "/releases/download/" up to the next
\* ".zip" is a link; the first link that names a macOS arm64 archive wins,
\* else the first link found.
RECURSIVE ScanLinks(_, _, _)
ScanLinks(html, index, best) ==
  LET start == FindFrom(html, <<"/releases", "/download/">>, index)
      end == IF start = 0 THEN 0 ELSE FindFrom(html, <<".zip">>, start)
      url == <<"https://", "github.com">> \o SubSeq(html, start, end)
  IN IF start = 0 \/ end = 0 THEN best
     ELSE IF is_macos_arm_asset(url) THEN <<url>>
     ELSE ScanLinks(html, end + 1, IF best = <<>> THEN <<url>> ELSE best)

\* tag.trim_start_matches('v'), the letter being a piece of its own.
RECURSIVE TrimStartMatches(_, _)
TrimStartMatches(str, c) ==
  IF str # <<>> /\ Head(str) = c THEN TrimStartMatches(Tail(str), c) ELSE str

\* The file names tried for a tag, in the order of the code.
ProbeCandidates(tag) ==
  LET version == TrimStartMatches(tag, "v") IN
  << <<"whisper-cpp-">> \o version \o <<"-macos-arm64-metal", ".zip">>,
     <<"whisper-cpp-v">> \o version \o <<"-macos-arm64-metal", ".zip">>,
     <<"whisper-cpp-">> \o version \o <<"-macos-arm64-accelerate", ".zip">>,
     <<"whisper-cpp-v">> \o version \o <<"-macos-arm64-accelerate", ".zip">>,
     <<"whisper-cpp-">> \o version \o <<"-macos-arm64", ".zip">>,
     <<"whisper-cpp-v">> \o version \o <<"-macos-arm64", ".zip">>,
     <<"whisper-cpp-macos-arm64-metal", ".zip">>,
     <<"whisper-cpp-macos-arm64", ".zip">> >>

\* What a resolution returns: Ok(url) or Err(err), and the requests it made.
Resolved(url, asked) == [ok |-> TRUE, url |-> url, err |-> "", asked |-> asked]
Unresolved(err, asked) == [ok |-> FALSE, url |-> <<>>, err |-> err, asked |-> asked]

NoAssetFound ==
  "No macOS arm64 zip asset found in GitHub release. Paste a direct .zip asset URL from the release."

\* The candidates are probed in order; net.live holds the positions of the
\* candidates the server answers for.
ProbeStep(repo_url, tag, net, asked) ==
  LET names == ProbeCandidates(tag)
      Live == {n \in 1..Len(names) : n \in net.live}
      first == CHOOSE n \in Live : \A k \in Live : n <= k
      Probes(n) == [k \in 1..n |-> "probe"]
  IN IF Live = {}
       THEN Unresolved(NoAssetFound, asked \o Probes(Len(names)))
       ELSE Resolved(repo_url \o <<"/releases", "/download/">> \o tag \o <<"/">>
                       \o names[first],
                     asked \o Probes(first))

\* The releases page is fetched and scanned, then the candidates probed.
HtmlStep(repo_url, net, asked) ==
  LET html == net.html.body
      tag == extract_latest_tag(html)
      best == ScanLinks(html, 1, <<>>)
      sent == Append(asked, "html")
  IN IF net.html.kind = "transport error"
       THEN Unresolved("GitHub HTML request failed", sent)
     ELSE IF net.html.kind = "status" THEN Unresolved(NoAssetFound, sent)
     ELSE IF best # <<>> THEN Resolved(best[1], sent)
     ELSE IF tag # <<>> THEN ProbeStep(repo_url, tag[1], net, sent)
     ELSE Unresolved(NoAssetFound, sent)

\* The first asset of the release that names a macOS arm64 archive.
FirstAsset(assets) ==
  LET Hits == {n \in 1..Len(assets) : is_macos_arm_asset(assets[n].name)}
  IN IF Hits = {} THEN <<>>
     ELSE <<assets[CHOOSE n \in Hits : \A k \in Hits : n <= k].url>>

\* resolve_whisper_download_url: a URL that names no GitHub release is
\* returned trimmed and with https; otherwise the release API is asked,
\* then the releases page, then the candidate files of the latest tag.
resolve_whisper_download_url(url, net) ==
  LET trimmed == Trim(url)
      https == Https(trimmed)
      At == {i \in 1..Len(https) : https[i] = "github.com/"}
      after == SubSeq(https, (CHOOSE i \in At : TRUE) + 1, Len(https))
      normalized ==
        IF Contains(https, <<"github.com/">>) /\ Contains(https, <<"/releases">>)
             /\ Cardinality(At) = 1
          THEN <<"https://">> \o ApiMarker \o after
          ELSE https
      is_github_api == Contains(normalized, ApiMarker)
                         /\ Contains(normalized, <<"/releases">>)
      api == net.api
      hit == FirstAsset(api.assets)
      repo == github_repo_from_api(normalized)
  IN IF trimmed = <<>> THEN Unresolved("Whisper download URL is empty.", <<>>)
     ELSE IF ~is_github_api THEN Resolved(normalized, <<>>)
     ELSE IF api.kind = "invalid json"
       THEN Unresolved("Invalid GitHub response", <<"api">>)
     ELSE IF api.kind = "no assets"
       THEN Unresolved("No assets in release.", <<"api">>)
     ELSE IF api.kind = "assets" /\ hit # <<>> THEN Resolved(hit[1], <<"api">>)
     ELSE IF api.kind = "status"
               /\ ~EndsWith(normalized, <<"/releases", "/latest">>)
       THEN Unresolved("GitHub API error", <<"api">>)
     ELSE IF repo = <<>>
       THEN Unresolved("No macOS arm64 zip asset found in GitHub release.",
                       <<"api">>)
     ELSE HtmlStep(repo[1], net, <<"api">>)

\* No server answers.
Offline == [api |-> [kind |-> "transport error", assets |-> <<>>],
            html |-> [kind |-> "transport error", body |-> <<>>],
            live |-> {}]

\* The model sizes and URLs the download requests are made with.
ModelSizes == {"small", "huge"}
Urls == {<<>>, <<"http://", "dl.example/", "tool">>,
         <<"https://", "dl.example/", "tool", ".zip">>}

\* Paths written by the downloads of an artifact key.
TmpPath(key) ==
  CASE key = whisper_binary_status_key -> "whisper/bin/whisper.part"
    [] key = ffmpeg_status_key -> "ffmpeg/ffmpeg.part"
    [] OTHER -> "models/model.part"

DestPath(key) ==
  CASE key = whisper_binary_status_key -> "whisper/bin/whisper"
    [] key = ffmpeg_status_key -> "ffmpeg/bin/ffmpeg"
    [] OTHER -> "models/model"

ProbePath == "ffmpeg/bin/ffprobe"

Paths == {TmpPath(k) : k \in {"small", whisper_binary_status_key, ffmpeg_status_key}}
         \cup {DestPath(k) : k \in {"small", whisper_binary_status_key, ffmpeg_status_key}}
         \cup {ProbePath}

\* HashMap::insert, HashMap::get(..).state
Insert(map, key, status) == [k \in DOMAIN map \cup {key} |->
                               IF k = key THEN status ELSE map[k]]

StateOf(map, key) == IF key \in DOMAIN map THEN map[key].state ELSE "idle"

remove_file(fs, path) == [fs EXCEPT ![path] = <<>>]

SpendDl(starts, chunks, faults) ==
  dlBudget' = [dlBudget EXCEPT !.starts = @ - starts, !.chunks = @ - chunks,
                              !.faults = @ - faults]

\* The Result a start command returns: Ok(status) or Err(message).
Reply(cmd, key, status, err) ==
  [seq |-> dlReply.seq + 1, cmd |-> cmd, key |-> key, ok |-> err = "",
   status |-> status, err |-> err]

\* A start command that always begins a new download.
BeginDownloadUnchecked(cmd, key, url, repo_id, message) ==
  LET status == [state |-> "downloading", model_size |-> key,
                 repo_id |-> repo_id, total_bytes |-> 0,
                 downloaded_bytes |-> 0, message |-> <<message>>,
                 started_at |-> <<now_ts(clock + 1)>>, finished_at |-> <<>>]
  IN /\ statuses' = Insert(statuses, key, status)
     /\ dlThreads' = dlThreads (+) SetToBag({[key |-> key, url |-> url,
                                               result_status |-> status,
                                               installed |->
                                                 artifacts[DestPath(key)],
                                               pc |-> "send"]})
     /\ dlReply' = Reply(cmd, key, <<status>>, "")
     /\ clock' = clock + 1

\* The critical section of the three start commands and the spawn after it:
\* a key that is downloading answers with the stored status; otherwise the
\* status is inserted and the download thread spawned.
\* The thread record keeps, for the properties, what the destination held
\* when the command was issued (installed).
BeginDownload(cmd, key, url, repo_id, message) ==
  IF StateOf(statuses, key) = "downloading"
    THEN /\ dlReply' = Reply(cmd, key, <<statuses[key]>>, "")
         /\ UNCHANGED <<statuses, dlThreads, clock>>
    ELSE LET status == [state |-> "downloading", model_size |-> key,
                        repo_id |-> repo_id, total_bytes |-> 0,
                        downloaded_bytes |-> 0, message |-> <<message>>,
                        started_at |-> <<now_ts(clock + 1)>>,
                        finished_at |-> <<>>]
         IN /\ statuses' = Insert(statuses, key, status)
            /\ dlThreads' = dlThreads (+) SetToBag({[key |-> key, url |-> url,
                                                      result_status |-> status,
                                                      installed |->
                                                        artifacts[DestPath(key)],
                                                      pc |-> "send"]})
            /\ dlReply' = Reply(cmd, key, <<status>>, "")
            /\ clock' = clock + 1

Refuse(cmd, key, err) ==
  /\ dlReply' = Reply(cmd, key, <<>>, err)
  /\ UNCHANGED <<statuses, dlThreads, artifacts, clock>>

jobSideVars == <<storeVars, queueVars, workerVars, stderrOpen, config, summ,
                 budget, logVars, fsVars, cmdVars, lockVars>>

start_model_download(model_size) ==
  /\ dlBudget.starts > 0
  /\ "start_model_download" \in dlBudget.commands
  /\ SpendDl(1, 0, 0)
  /\ IF model_filename(model_size) = "Err"
       THEN Refuse("start_model_download", model_size, "Unknown model size")
       ELSE /\ BeginDownload("start_model_download", model_size,
                             model_url(model_size), "whisper.cpp",
                             "Downloading " \o model_filename(model_size))
            /\ UNCHANGED artifacts
  /\ UNCHANGED jobSideVars

start_whisper_download(url) ==
  /\ dlBudget.starts > 0
  /\ "start_whisper_download" \in dlBudget.commands
  /\ \E dir_created \in (IF dlBudget.faults > 0 THEN BOOLEAN ELSE {TRUE}) :
       LET resolved == resolve_whisper_download_url(url, Offline)
           key == whisper_binary_status_key
       IN /\ SpendDl(1, 0, IF resolved.ok /\ ~dir_created THEN 1 ELSE 0)
          /\ IF ~resolved.ok \/ ~dir_created
               THEN Refuse("start_whisper_download", key,
                           IF resolved.ok THEN "failed to create whisper bin dir"
                                          ELSE resolved.err)
               ELSE /\ artifacts' = remove_file(remove_file(artifacts, DestPath(key)),
                                                TmpPath(key))
                    /\ BeginDownload("start_whisper_download", key, resolved.url,
                                     "whisper.cpp",
                                     "Downloading whisper.cpp binary")
  /\ UNCHANGED jobSideVars

start_ffmpeg_download(url) ==
  /\ dlBudget.starts > 0
  /\ "start_ffmpeg_download" \in dlBudget.commands
  /\ \E dir_created \in (IF dlBudget.faults > 0 THEN BOOLEAN ELSE {TRUE}) :
       LET key == ffmpeg_status_key
       IN /\ SpendDl(1, 0, IF Trim(url) # <<>> /\ ~dir_created THEN 1 ELSE 0)
          /\ IF Trim(url) = <<>> \/ ~dir_created
               THEN Refuse("start_ffmpeg_download", key,
                           IF Trim(url) = <<>> THEN "FFmpeg download URL is empty."
                                       ELSE "failed to create ffmpeg bin dir")
               ELSE /\ artifacts' = remove_file(artifacts, TmpPath(key))
                    /\ BeginDownload("start_ffmpeg_download", key, Https(url),
                                     "ffmpeg", "Downloading FFmpeg")
  /\ UNCHANGED jobSideVars

\* ----------------------------------------------------- download threads
\* A file is <<>> when absent, else <<[writer, bytes]>>: the download that
\* wrote it (its started_at) and how many chunks it holds.
FileOf(t) == [writer |-> t.result_status.started_at[1],
              bytes |-> t.result_status.downloaded_bytes]

Advance(t, t2) == dlThreads' = (dlThreads (-) SetToBag({t})) (+) SetToBag({t2})

Failed(t, message) ==
  [t EXCEPT !.pc = "failed", !.result_status.message = <<message>>]

Published(t, state, message) ==
  [t EXCEPT !.pc = "publish", !.result_status.state = state,
            !.result_status.message = <<message>>]

DlOutcomes(failures) == {"ok"} \cup (IF dlBudget.faults > 0 THEN failures ELSE {})

DlCost(outcome) == IF outcome = "ok" THEN 0 ELSE 1

\* download_to_file up to the read loop: the request is sent, the
\* Content-Length (when present) stored, the temporary file created.
DlSend(t) ==
  /\ t.pc = "send"
  /\ \E outcome \in DlOutcomes({"Request failed", "Download failed",
                                "Failed to create file"}),
        total \in {0, MaxChunks} :
       LET known == total > 0 /\ outcome \in {"ok", "Failed to create file"}
           sized == IF known THEN [t EXCEPT !.result_status.total_bytes = total]
                             ELSE t
       IN /\ SpendDl(0, 0, DlCost(outcome))
          /\ statuses' = IF known THEN Insert(statuses, t.key, sized.result_status)
                                  ELSE statuses
          /\ IF outcome = "ok"
               THEN /\ artifacts' = [artifacts EXCEPT ![TmpPath(t.key)] =
                                       <<FileOf(sized)>>]
                    /\ Advance(t, [sized EXCEPT !.pc = "body"])
               ELSE /\ Advance(t, Failed(sized, outcome))
                    /\ UNCHANGED artifacts
  /\ UNCHANGED <<jobSideVars, clock, dlReply>>

\* One round of the read loop: a chunk is written to the open file (which
\* the path no longer names once it was removed) and the status stored.
DlChunk(t) ==
  /\ t.pc = "body"
  /\ dlBudget.chunks > 0
  /\ \E outcome \in DlOutcomes({"Download error", "Write error"}) :
       LET more == [t EXCEPT !.result_status.downloaded_bytes = @ + 1]
           path == TmpPath(t.key)
           mine == artifacts[path] = <<FileOf(t)>>
       IN /\ SpendDl(0, 1, DlCost(outcome))
          /\ IF outcome = "ok"
               THEN /\ statuses' = Insert(statuses, t.key, more.result_status)
                    /\ artifacts' = IF mine
                                      THEN [artifacts EXCEPT ![path] = <<FileOf(more)>>]
                                      ELSE artifacts
                    /\ Advance(t, more)
               ELSE /\ Advance(t, Failed(t, outcome))
                    /\ UNCHANGED <<statuses, artifacts>>
  /\ UNCHANGED <<jobSideVars, clock, dlReply>>

\* read returns 0: download_to_file returns Ok.
DlBodyEnd(t) ==
  /\ t.pc = "body"
  /\ Advance(t, [t EXCEPT !.pc = "finalize"])
  /\ UNCHANGED <<jobSideVars, clock, dlReply, statuses, artifacts, dlBudget>>

\* The Err branch after download_to_file: the speech-engine and transcoder
\* threads remove the temporary file, the model thread leaves it.
DlFail(t) ==
  /\ t.pc = "failed"
  /\ artifacts' = IF t.key \in {whisper_binary_status_key, ffmpeg_status_key}
                    THEN remove_file(artifacts, TmpPath(t.key))
                    ELSE artifacts
  /\ Advance(t, [t EXCEPT !.pc = "publish", !.result_status.state = "error"])
  /\ UNCHANGED <<jobSideVars, clock, dlReply, statuses, dlBudget>>

\* A rename that reports success and moves nothing.
rename_moves_nothing(fs, from, to, fault) == [ok |-> TRUE, fs |-> fs]

\* fs::rename: the result is [ok, fs].
rename(fs, from, to, fault) ==
  IF fs[from] = <<>> \/ fault
    THEN [ok |-> FALSE, fs |-> fs]
    ELSE [ok |-> TRUE, fs |-> [fs EXCEPT ![to] = fs[from], ![from] = <<>>]]

\* The entries an archive may turn out to hold, as extract_*_zip finds them.
WhisperArchives == {"ok", "Invalid zip", "Whisper binary not found in zip.",
                    "Failed to extract binary"}
FfmpegArchives == {"ok", "Invalid zip", "ffmpeg binary not found in zip.",
                   "ffprobe binary not found in zip."}

\* extract_whisper_zip: the first matching entry is copied to dest_path.
extract_whisper_zip(fs, zip_path, dest_path, archive) ==
  CASE fs[zip_path] = <<>> -> [err |-> "Failed to open zip", fs |-> fs]
    [] archive = "ok" ->
         [err |-> "", fs |-> [fs EXCEPT ![dest_path] = fs[zip_path]]]
    [] archive = "Failed to extract binary" ->
         [err |-> archive,
          fs |-> [fs EXCEPT ![dest_path] = <<[fs[zip_path][1] EXCEPT !.bytes = 0]>>]]
    [] OTHER -> [err |-> archive, fs |-> fs]

\* extract_ffmpeg_zip: every ffmpeg and ffprobe entry is written as it is
\* met; the missing ones are reported after the loop.
extract_ffmpeg_zip(fs, zip_path, archive) ==
  CASE fs[zip_path] = <<>> -> [err |-> "Failed to open zip", fs |-> fs]
    [] archive = "ok" ->
         [err |-> "", fs |-> [fs EXCEPT ![DestPath(ffmpeg_status_key)] = fs[zip_path],
                                        ![ProbePath] = fs[zip_path]]]
    [] archive = "ffmpeg binary not found in zip." ->
         [err |-> archive, fs |-> [fs EXCEPT ![ProbePath] = fs[zip_path]]]
    [] archive = "ffprobe binary not found in zip." ->
         [err |-> archive,
          fs |-> [fs EXCEPT ![DestPath(ffmpeg_status_key)] = fs[zip_path]]]
    [] OTHER -> [err |-> archive, fs |-> fs]

Done(t) ==
  [t EXCEPT !.pc = "publish", !.result_status.state = "done",
            !.result_status.finished_at = <<now_ts(clock)>>,
            !.result_status.message = <<"Download complete">>]

FinalizeModel(t, fault) ==
  LET moved == rename(artifacts, TmpPath(t.key), DestPath(t.key), fault)
  IN [fs |-> moved.fs,
      thread |-> IF moved.ok THEN Done(t)
                             ELSE Published(t, "error", "Finalize error")]

FinalizeWhisper(t, archive, fault) ==
  IF IsZip(t.url)
    THEN LET out == extract_whisper_zip(artifacts, TmpPath(t.key),
                                        DestPath(t.key), archive)
         IN IF out.err # ""
              THEN [fs |-> out.fs, thread |-> Published(t, "error", out.err)]
              ELSE [fs |-> remove_file(out.fs, TmpPath(t.key)), thread |-> Done(t)]
    ELSE FinalizeModel(t, fault)

\* The transcoder thread also runs ensure_lgpl_ffmpeg on the installed binary.
FinalizeFfmpeg(t, archive, fault, lgpl) ==
  LET out == extract_ffmpeg_zip(artifacts, TmpPath(t.key), archive)
      moved == rename(artifacts, TmpPath(t.key), DestPath(t.key), fault)
      placed == IF IsZip(t.url) THEN remove_file(out.fs, TmpPath(t.key))
                                ELSE moved.fs
  IN CASE IsZip(t.url) /\ out.err # "" ->
            [fs |-> placed, thread |-> Published(t, "error", out.err)]
       [] ~IsZip(t.url) /\ ~moved.ok ->
            [fs |-> placed, thread |-> Published(t, "error", "Finalize error")]
       [] ~lgpl ->
            [fs |-> placed,
             thread |-> Published(t, "error", "FFmpeg build contains GPL/nonfree flags; please use LGPL build.")]
       [] OTHER -> [fs |-> placed, thread |-> Done(t)]

\* After a successful transfer: the artifact is put in place.
DlFinalize(t) ==
  /\ t.pc = "finalize"
  /\ \E archive \in WhisperArchives \cup FfmpegArchives, fault \in BOOLEAN,
        lgpl \in BOOLEAN :
       LET zip == IsZip(t.url) /\ t.key \in {whisper_binary_status_key, ffmpeg_status_key}
           clean == archive = "ok" /\ ~fault /\ lgpl
           result == CASE t.key = whisper_binary_status_key ->
                            FinalizeWhisper(t, archive, fault)
                       [] t.key = ffmpeg_status_key ->
                            FinalizeFfmpeg(t, archive, fault, lgpl)
                       [] OTHER -> FinalizeModel(t, fault)
       IN /\ clean \/ dlBudget.faults > 0
          /\ archive \in (IF ~zip THEN {"ok"}
                          ELSE IF t.key = ffmpeg_status_key THEN FfmpegArchives
                          ELSE WhisperArchives)
          /\ zip => ~fault
          /\ (t.key # ffmpeg_status_key \/ archive # "ok" \/ fault) => lgpl
          /\ SpendDl(0, 0, IF clean THEN 0 ELSE 1)
          /\ artifacts' = result.fs
          /\ Advance(t, result.thread)
  /\ UNCHANGED <<jobSideVars, clock, dlReply, statuses>>

\* A thread that ends without storing its final status.
DlPublishNothing(t) ==
  /\ t.pc = "publish"
  /\ dlThreads' = dlThreads (-) SetToBag({t})
  /\ UNCHANGED <<jobSideVars, clock, dlReply, artifacts, dlBudget, statuses>>

\* The last insert of the thread, after which it ends.
DlPublish(t) ==
  /\ t.pc = "publish"
  /\ statuses' = Insert(statuses, t.key, t.result_status)
  /\ dlThreads' = dlThreads (-) SetToBag({t})
  /\ UNCHANGED <<jobSideVars, clock, dlReply, artifacts, dlBudget>>

\* ------------------------------------------------------------- log buffer
\* tests.rs: the job of log_buffer_is_bounded and the lines it appends.
test_job(id) ==
  [id |-> id, status |-> "queued", progress |-> 0, stage |-> "import",
   logs |-> <<>>, transcript_txt_path |-> "", transcript_json_path |-> "",
   transcript_srt_path |-> "", md_preview |-> "",
   summary_status |-> "not_started", summary_error |-> "", summary_md |-> ""]

\* format!("line {idx}")
LogLine(idx) == <<"line", idx>>

PushLine ==
  /\ appended < MaxAppends
  /\ testJob' = push_log(testJob, LogLine(appended))
  /\ appended' = appended + 1
  /\ UNCHANGED <<storeVars, queueVars, workerVars, clock, stderrOpen, config,
                 summ, budget, dlVars, fsVars, cmdVars, lockVars>>

\* ------------------------------------------------------- index.json
\* A String is a sequence of characters, an Option a sequence of length 0
\* or 1, the progress a number of thousandths.  The document is the record
\* of the encoded fields; an encoded value is the sequence of its characters
\* (null, true and false one token each), an encoded Vec the sequence of its
\* encoded elements.
NoCall == [op |-> "", pc |-> "", arg |-> <<>>, file |-> <<>>, out |-> <<>>]

Uncalled == call = NoCall

callRest == <<storeVars, queueVars, workerVars, clock, stderrOpen, config, summ,
              budget, logVars, dlVars, fsVars, lockVars, clip, ret>>

Quote == "\""
Backslash == "\\"

\* A writer that leaves quotes and backslashes as they are.
RECURSIVE EscapeNothing(_)
EscapeNothing(str) ==
  IF str = <<>> THEN <<>> ELSE <<Head(str)>> \o EscapeNothing(Tail(str))

\* serde_json writes a backslash before a quote and before a backslash.
RECURSIVE Escape(_)
Escape(str) ==
  IF str = <<>> THEN <<>>
  ELSE (IF Head(str) \in {Quote, Backslash} THEN <<Backslash, Head(str)>>
                                            ELSE <<Head(str)>>)
         \o Escape(Tail(str))

WriteString(str) == <<Quote>> \o Escape(str) \o <<Quote>>

\* The characters up to the closing quote, escapes undone; ok is false when
\* the text has no closing quote, a dangling backslash or more after the end.
RECURSIVE ReadChars(_)
ReadChars(text) ==
  IF text = <<>> THEN [ok |-> FALSE, val |-> <<>>]
  ELSE IF Head(text) = Quote THEN [ok |-> Tail(text) = <<>>, val |-> <<>>]
  ELSE IF Head(text) = Backslash
    THEN IF Len(text) < 2 THEN [ok |-> FALSE, val |-> <<>>]
         ELSE LET rest == ReadChars(Tail(Tail(text)))
              IN [ok |-> rest.ok, val |-> <<text[2]>> \o rest.val]
  ELSE LET rest == ReadChars(Tail(text))
       IN [ok |-> rest.ok, val |-> <<Head(text)>> \o rest.val]

ReadString(text) ==
  IF text = <<>> \/ Head(text) # Quote THEN [ok |-> FALSE, val |-> <<>>]
                                        ELSE ReadChars(Tail(text))

Digit(n) == CASE n = 0 -> "0" [] n = 1 -> "1" [] n = 2 -> "2" [] n = 3 -> "3"
              [] n = 4 -> "4" [] n = 5 -> "5" [] n = 6 -> "6" [] n = 7 -> "7"
              [] n = 8 -> "8" [] OTHER -> "9"

DigitValue(c) == CHOOSE n \in 0..9 : Digit(n) = c

IsDigit(c) == \E n \in 0..9 : Digit(n) = c

\* The shortest decimal of a progress in [0, 1]: one integer digit, a point
\* and the fraction without trailing zeros (at least one digit).
WriteNumber(p) ==
  LET frac == <<(p % 1000) \div 100, (p % 100) \div 10, p % 10>>
      last == IF frac[3] # 0 THEN 3 ELSE IF frac[2] # 0 THEN 2 ELSE 1
  IN <<Digit(p \div 1000), ".">> \o [n \in 1..last |-> Digit(frac[n])]

ReadNumber(text) ==
  IF /\ Len(text) \in 3..5
     /\ text[2] = "."
     /\ \A n \in (1..Len(text)) \ {2} : IsDigit(text[n])
    THEN LET Frac(n) == IF Len(text) >= n + 2 THEN DigitValue(text[n + 2]) ELSE 0
         IN [ok |-> TRUE,
             val |-> DigitValue(text[1]) * 1000 + Frac(1) * 100 + Frac(2) * 10
                       + Frac(3)]
    ELSE [ok |-> FALSE, val |-> 0]

WriteOption(opt) == IF opt = <<>> THEN <<"null">> ELSE WriteString(opt[1])

ReadOption(text) ==
  IF text = <<"null">> THEN [ok |-> TRUE, val |-> <<>>]
  ELSE LET str == ReadString(text) IN [ok |-> str.ok, val |-> <<str.val>>]

WriteBool(b) == IF b THEN <<"true">> ELSE <<"false">>

ReadBool(text) == [ok |-> text \in {<<"true">>, <<"false">>},
                   val |-> text = <<"true">>]

StringFields == {"id", "filename", "status", "stage", "created_at", "audio_path",
                 "transcript_txt_path", "transcript_json_path",
                 "transcript_srt_path"}

OptionFields == {"md_preview", "summary_status", "summary_model",
                 "summary_error", "summary_md"}

JobFields == StringFields \cup OptionFields
               \cup {"progress", "logs", "exported_to_obsidian"}

\* Serialize for Job, field by field.
WriteJob(job) ==
  [f \in JobFields |->
     CASE f \in StringFields -> WriteString(job[f])
       [] f \in OptionFields -> WriteOption(job[f])
       [] f = "progress" -> WriteNumber(job[f])
       [] f = "logs" -> [n \in 1..Len(job[f]) |-> WriteString(job[f][n])]
       [] OTHER -> WriteBool(job[f])]

\* Deserialize for Job: every field read with the reader of its type.
ReadJob(doc) ==
  [f \in JobFields |->
     CASE f \in StringFields -> ReadString(doc[f])
       [] f \in OptionFields -> ReadOption(doc[f])
       [] f = "progress" -> ReadNumber(doc[f])
       [] f = "logs" ->
            [ok |-> \A n \in 1..Len(doc[f]) : ReadString(doc[f][n]).ok,
             val |-> [n \in 1..Len(doc[f]) |-> ReadString(doc[f][n]).val]]
       [] OTHER -> ReadBool(doc[f])]

\* A text of no characters, as File::create leaves it.
Blank == [blank |-> TRUE, jobs |-> <<>>]

\* serde_json::to_string_pretty(index)
to_string_pretty(index) ==
  [blank |-> FALSE, jobs |-> [n \in 1..Len(index) |-> WriteJob(index[n])]]

\* serde_json::from_str: Err when a value does not read as its type.
from_str(contents) ==
  LET read == [n \in 1..Len(contents.jobs) |-> ReadJob(contents.jobs[n])]
  IN IF \A n \in 1..Len(read) : \A f \in JobFields : read[n][f].ok
       THEN <<"Ok", [n \in 1..Len(read) |-> [f \in JobFields |-> read[n][f].val]]>>
       ELSE <<"Err", "invalid index.json">>

\* load_index_from_disk: no file or a blank file is an empty index.
load_index_from_disk(file) ==
  IF file = <<>> \/ file[1].blank THEN <<"Ok", <<>>>> ELSE from_str(file[1])

\* tests.rs test_job, with the fields the round trip is to preserve.
RoundtripJob(id, progress, text, opt) ==
  [id |-> id, filename |-> <<"a", ".", "m">>, status |-> <<"q">>,
   progress |-> progress, stage |-> <<"i">>, logs |-> text,
   created_at |-> <<"0">>, audio_path |-> <<>>, transcript_txt_path |-> <<>>,
   transcript_json_path |-> IF text = <<>> THEN <<>> ELSE text[1],
   transcript_srt_path |-> <<>>, md_preview |-> opt, summary_status |-> <<>>,
   summary_model |-> <<>>, summary_error |-> <<>>, summary_md |-> opt,
   exported_to_obsidian |-> opt # <<>>]

\* Log lines and Option values: plain, quoted, backslashes, empty, None.
SampleTexts ==
  {<<<<>>, <<>>>>,
   <<<<<<"a">>, <<>>>>, <<<<>>>>>>,
   <<<<<<Quote, "a", Backslash>>, <<>>>>, <<<<Quote>>>>>>,
   <<<<<<Backslash, Backslash, Quote>>, <<>>>>, <<>>>>}

SampleJobs ==
  {RoundtripJob(id, progress, text[1], text[2]) :
     id \in {<<"a">>, <<"b">>}, progress \in {0, 540, 1000},
     text \in SampleTexts}

RECURSIVE SeqsUpTo(_, _)
SeqsUpTo(S, n) ==
  IF n = 0 THEN {<<>>}
  ELSE LET shorter == SeqsUpTo(S, n - 1)
       IN shorter \cup {Append(q, x) : q \in shorter, x \in S}

\* index_persistence_roundtrip: the index is saved ...
RoundtripSave ==
  /\ call.op = "index_persistence_roundtrip"
  /\ call.pc = "save"
  /\ \E outcome \in {"ok", "create_failed", "write_failed"} :
       call' = CASE outcome = "ok" ->
                      [call EXCEPT !.pc = "load",
                                   !.file = <<to_string_pretty(call.arg)>>]
                 [] outcome = "create_failed" -> [call EXCEPT !.pc = "save failed"]
                 [] OTHER -> [call EXCEPT !.pc = "save failed", !.file = <<Blank>>]
  /\ UNCHANGED callRest

\* ... and loaded from the same path.
RoundtripLoad ==
  /\ call.op = "index_persistence_roundtrip"
  /\ call.pc = "load"
  /\ call' = [call EXCEPT !.pc = "loaded", !.out = load_index_from_disk(call.file)]
  /\ UNCHANGED callRest

\* ------------------------------------------------------------- resolvers
\* The surroundings of a resolver: the override variables, the directories
\* the platform reports (an Option each; the working directory as its
\* components), and the files present.  A file of `binaries` passes
\* is_macho_binary.
Join(dir, rel) == dir \o "/" \o rel

Range(seq) == {seq[n] : n \in 1..Len(seq)}

RECURSIVE PathOf(_)
PathOf(components) ==
  IF components = <<>> THEN ""
  ELSE PathOf(SubSeq(components, 1, Len(components) - 1))
         \o "/" \o components[Len(components)]

\* The directory and up to n - 1 of its ancestors, nearest first.
RECURSIVE Ancestors(_, _)
Ancestors(components, n) ==
  IF n = 0 THEN <<>>
  ELSE <<PathOf(components)>>
         \o (IF components = <<>> THEN <<>>
             ELSE Ancestors(SubSeq(components, 1, Len(components) - 1), n - 1))

Each(dirs, rels) ==
  IF dirs = <<>> THEN <<>> ELSE [n \in 1..Len(rels) |-> Join(dirs[1], rels[n])]

RECURSIVE Find(_, _)
Find(candidates, files) ==
  IF candidates = <<>> THEN <<>>
  ELSE IF Head(candidates) \in files THEN <<Head(candidates)>>
  ELSE Find(Tail(candidates), files)

WhisperBinCandidates(env) ==
  <<"third_party/whisper/bin/whisper", "third_party/whisper/bin/main">>
    \o Each([n \in 1..Len(env.cwd) |-> PathOf(env.cwd[n])],
            <<"third_party/whisper/bin/whisper", "third_party/whisper/bin/main">>)
    \o Each(env.resource_dir, <<"whisper/bin/whisper", "whisper/bin/main">>)
    \o Each(env.app_data_dir,
            <<"voicenote/whisper/bin/whisper", "voicenote/whisper/bin/main">>)
    \o Each(env.exe_dir, <<"whisper", "main">>)

WhisperModelCandidates(env, model_size) ==
  LET file == model_name(model_size) IN
  <<"third_party/whisper/models/" \o file>>
    \o Each([n \in 1..Len(env.cwd) |-> PathOf(env.cwd[n])],
            <<"third_party/whisper/models/" \o file>>)
    \o Each(env.resource_dir, <<"whisper/models/" \o file>>)
    \o Each(env.app_data_dir, <<"voicenote/models/" \o file>>)
    \o Each(env.exe_dir, <<"../Resources/whisper/models/" \o file>>)

\* The message of resolve_whisper_paths, cut at the paths it names.
WhisperNotFound ==
  <<"Whisper binary/model not found. Provide whisper.cpp at ",
    "third_party/whisper/bin/whisper", " and model at ",
    "third_party/whisper/models/ggml-<size>.bin",
    ", or set VOICENOTE_WHISPER_PATH and VOICENOTE_WHISPER_MODEL.">>

resolve_whisper_paths(env, model_size) ==
  IF /\ env.whisper_path # <<>> /\ env.whisper_model # <<>>
     /\ env.whisper_path[1] \in env.files /\ env.whisper_model[1] \in env.files
    THEN [ok |-> TRUE, paths |-> <<env.whisper_path[1], env.whisper_model[1]>>,
          err |-> <<>>]
    ELSE LET bin == Find(WhisperBinCandidates(env), env.files \cap env.binaries)
             model == Find(WhisperModelCandidates(env, model_size), env.files)
         IN IF bin # <<>> /\ model # <<>>
              THEN [ok |-> TRUE, paths |-> bin \o model, err |-> <<>>]
              ELSE [ok |-> FALSE, paths |-> <<>>, err |-> WhisperNotFound]

FfmpegCandidates(env) ==
  (IF env.cwd = <<>> THEN <<>>
   ELSE LET dirs == <<PathOf(env.cwd[1])>> \o Ancestors(env.cwd[1], 4)
        IN [n \in 1..Len(dirs) |-> Join(dirs[n], "third_party/ffmpeg/bin/ffmpeg")])
    \o Each(env.resource_dir, <<"ffmpeg/bin/ffmpeg", "resources/ffmpeg/bin/ffmpeg",
                                "third_party/ffmpeg/bin/ffmpeg">>)
    \o Each(env.app_data_dir, <<"voicenote/ffmpeg/bin/ffmpeg">>)
    \o Each(env.exe_dir, <<"../Resources/ffmpeg/bin/ffmpeg",
                           "../Resources/resources/ffmpeg/bin/ffmpeg",
                           "../Resources/third_party/ffmpeg/bin/ffmpeg">>)

\* The message of resolve_ffmpeg_path, cut at the path it names.
FfmpegNotFound ==
  <<"FFmpeg not found. Provide an LGPL build at ",
    "./third_party/ffmpeg/bin/ffmpeg",
    " (see scripts/ffmpeg/build_macos_lgpl.sh) or set VOICENOTE_FFMPEG_PATH.">>

\* ensure_lgpl_ffmpeg: the version banner of the binary decides.
ensure_lgpl_ffmpeg(path, env) ==
  IF path \in env.gpl
    THEN [ok |-> FALSE, paths |-> <<>>,
          err |-> <<"FFmpeg build contains GPL/nonfree flags; please use LGPL build.">>]
    ELSE [ok |-> TRUE, paths |-> <<path>>, err |-> <<>>]

resolve_ffmpeg_path(env) ==
  IF env.ffmpeg_path # <<>> /\ env.ffmpeg_path[1] \in env.files
    THEN ensure_lgpl_ffmpeg(env.ffmpeg_path[1], env)
    ELSE LET found == Find(FfmpegCandidates(env), env.files)
         IN IF found # <<>> THEN ensure_lgpl_ffmpeg(found[1], env)
                            ELSE [ok |-> FALSE, paths |-> <<>>, err |-> FfmpegNotFound]

\* The surroundings explored: every combination of directories the platform
\* may report, with no file, with files at some candidates, with overrides.
Platforms ==
  [cwd : {<<>>, <<<<"work", "app">>>>}, resource_dir : {<<>>, <<"/res">>},
   app_data_dir : {<<>>, <<"/data">>}, exe_dir : {<<>>, <<"/opt/app">>}]

Installs ==
  {[files |-> {}, binaries |-> {}, gpl |-> {}],
   [files |-> {"third_party/whisper/bin/whisper",
               "third_party/whisper/models/ggml-small.bin",
               "/work/third_party/ffmpeg/bin/ffmpeg"},
    binaries |-> {"third_party/whisper/bin/whisper"}, gpl |-> {}],
   [files |-> {"/data/voicenote/whisper/bin/main", "/data/voicenote/models/ggml-small.bin",
               "/res/ffmpeg/bin/ffmpeg", "/usr/bin/whisper", "/usr/bin/ffmpeg",
               "/models/ggml-base.bin"},
    binaries |-> {"/usr/bin/whisper"}, gpl |-> {"/res/ffmpeg/bin/ffmpeg"}]}

Overrides ==
  {[whisper_path |-> <<>>, whisper_model |-> <<>>, ffmpeg_path |-> <<>>],
   [whisper_path |-> <<"/usr/bin/whisper">>, whisper_model |-> <<>>,
    ffmpeg_path |-> <<"/usr/bin/ffmpeg">>],
   [whisper_path |-> <<"/usr/bin/whisper">>,
    whisper_model |-> <<"/models/ggml-base.bin">>, ffmpeg_path |-> <<"/gone">>]}

Surroundings ==
  {[cwd |-> p.cwd, resource_dir |-> p.resource_dir, app_data_dir |-> p.app_data_dir,
    exe_dir |-> p.exe_dir, files |-> i.files, binaries |-> i.binaries,
    gpl |-> i.gpl, whisper_path |-> o.whisper_path,
    whisper_model |-> o.whisper_model, ffmpeg_path |-> o.ffmpeg_path,
    model_size |-> m] :
     p \in Platforms, i \in Installs, o \in Overrides, m \in {"small", "base"}}

ResolveWhisper ==
  /\ call.op = "resolve_whisper_paths"
  /\ call.pc = "call"
  /\ call' = [call EXCEPT !.pc = "returned",
                          !.out = resolve_whisper_paths(call.arg, call.arg.model_size)]
  /\ UNCHANGED callRest

ResolveFfmpeg ==
  /\ call.op = "resolve_ffmpeg_path"
  /\ call.pc = "call"
  /\ call' = [call EXCEPT !.pc = "returned", !.out = resolve_ffmpeg_path(call.arg)]
  /\ UNCHANGED callRest

\* -------------------------------------------------------------- segments
\* A transcript document: an array of objects, or an object with one key
\* holding such an array.  An object is a record of the keys it has; a text
\* is a sequence of characters; a Segment holds thousandths of a second.

Get(object, key) == IF key \in DOMAIN object THEN <<object[key]>> ELSE <<>>

OrElse(opt, other) == IF opt # <<>> THEN opt ELSE other

UnwrapOr(opt, default) == IF opt # <<>> THEN opt[1] ELSE default

\* Seconds, centiseconds and milliseconds as thousandths of a second.
Seconds(v) == v
Centiseconds(v) == (v * 1000) \div 100
Milliseconds(v) == (v * 1000) \div 1000

Segment(start, end, text) == [start |-> start, end |-> end, text |-> text]

RECURSIVE Collect(_, _)
Collect(items, Convert) ==
  IF items = <<>> THEN <<>>
  ELSE LET seg == Convert[Head(items)]
       IN (IF seg.text # <<>> THEN <<seg>> ELSE <<>>) \o Collect(Tail(items), Convert)

\* One element of {segments: [...]}: start/end in seconds, else t0/t1.
FromSegments(seg) ==
  LET text == Trim(UnwrapOr(Get(seg, "text"), <<>>))
      opt0 == OrElse(Get(seg, "start"),
                     IF "t0" \in DOMAIN seg THEN <<Centiseconds(seg.t0)>> ELSE <<>>)
      start == UnwrapOr(opt0, 0)
      opt1 == OrElse(Get(seg, "end"),
                     IF "t1" \in DOMAIN seg THEN <<Centiseconds(seg.t1)>> ELSE <<>>)
  IN Segment(start, UnwrapOr(opt1, start), text)

\* One element of {transcription: [...]}: offsets.from / offsets.to.
FromTranscription(seg) ==
  LET text == Trim(UnwrapOr(Get(seg, "text"), <<>>))
      offsets == Get(seg, "offsets")
      start_ms == IF offsets # <<>> THEN UnwrapOr(Get(offsets[1], "from"), 0) ELSE 0
      end_ms == IF offsets # <<>> THEN UnwrapOr(Get(offsets[1], "to"), start_ms)
                                  ELSE start_ms
  IN Segment(Milliseconds(start_ms), Milliseconds(end_ms), text)

\* from_str::<Vec<Segment>>: an array whose elements have the three fields.
IsSegmentArray(doc) ==
  /\ doc.kind = "array"
  /\ \A n \in 1..Len(doc.items) : {"start", "end", "text"} \subseteq DOMAIN doc.items[n]

\* get_segments on the contents of the transcript JSON of the job.
get_segments(doc) ==
  IF IsSegmentArray(doc)
    THEN <<"Ok", [n \in 1..Len(doc.items) |->
                   Segment(Seconds(doc.items[n].start), Seconds(doc.items[n].end),
                           doc.items[n].text)]>>
  ELSE IF doc.kind = "segments"
    THEN <<"Ok", Collect(doc.items, [seg \in Range(doc.items) |-> FromSegments(seg)])>>
  ELSE IF doc.kind = "transcription"
    THEN <<"Ok", Collect(doc.items,
                         [seg \in Range(doc.items) |-> FromTranscription(seg)])>>
  ELSE <<"Err", "segments not found in transcript json">>

\* The same segments written in each of the shapes.
Shapes == {"flat", "segments, seconds", "segments, t0/t1", "transcription"}

Written1(shape, seg) ==
  CASE shape \in {"flat", "segments, seconds"} ->
         [start |-> seg.start, end |-> seg.end, text |-> seg.text]
    [] shape = "segments, t0/t1" ->
         [t0 |-> seg.start \div 10, t1 |-> seg.end \div 10, text |-> seg.text]
    [] OTHER ->
         [offsets |-> [from |-> seg.start, to |-> seg.end], text |-> seg.text]

Document(shape, segs) ==
  [kind |-> CASE shape = "flat" -> "array"
              [] shape = "transcription" -> "transcription"
              [] OTHER -> "segments",
   items |-> [n \in 1..Len(segs) |-> Written1(shape, segs[n])]]

SampleSegments ==
  {Segment(t[1], t[2], text) :
     t \in {<<0, 1500>>, <<1600, 3200>>},
     text \in {<<"O", "n", "e">>, <<" ", "T", "w", "o">>, <<>>, <<" ", " ">>}}

GetSegments ==
  /\ call.op = "get_segments"
  /\ call.pc = "call"
  /\ call' = [call EXCEPT !.pc = "returned",
                          !.out = get_segments(Document(call.arg.shape, call.arg.segs))]
  /\ UNCHANGED callRest

\* --------------------------------------------- the stdout reader in f32
\* The loop of run_whisper_cpp over the stdout lines of one job at stage
\* transcribe (progress 0.3): call.arg holds the lines read, call.out the
\* progress of the job.
ReadProgressLine ==
  /\ call.op = "run_whisper_cpp"
  /\ call.pc = "stdout"
  /\ Len(call.arg) < MaxStdoutLines
  /\ \E line \in ProgressLines :
       LET progress == FirstPercent(line) IN
       call' = [call EXCEPT !.arg = Append(@, line),
                            !.out = IF progress # <<>> THEN mapped(progress[1])
                                                       ELSE @]
  /\ UNCHANGED callRest

\* stdout closes and the subprocess exits: on success process_job sets the
\* progress to 1.0, on failure it leaves it.
ProgressExit ==
  /\ call.op = "run_whisper_cpp"
  /\ call.pc = "stdout"
  /\ \E success \in BOOLEAN :
       call' = [call EXCEPT !.pc = IF success THEN "done" ELSE "error",
                            !.out = IF success THEN F32One ELSE @]
  /\ UNCHANGED callRest

\* ------------------------------------------------------------- the locks
\* The three mutexes: JobIndexState.index, ConfigState.config and
\* ModelDownloadState.statuses.  Each thread is the sequence of its lock
\* operations in program order; Work is a step made between them (a
\* subprocess, a request, an event).
Locks == {"index", "config", "statuses"}

Lock(l) == [op |-> "lock", lock |-> l]
Unlock(l) == [op |-> "unlock", lock |-> l]
Work == [op |-> "work", lock |-> ""]

Section(l) == <<Lock(l), Unlock(l)>>

RECURSIVE Repeat(_, _)
Repeat(ops, n) == IF n = 0 THEN <<>> ELSE ops \o Repeat(ops, n - 1)

\* A variant that still holds the config guard in the first block.
process_job_locks_nested ==
  <<Lock("config"), Lock("index"), Unlock("index"), Unlock("config")>>
  \o Section("index") \o Section("index")

\* process_job: the config block, the first block, update_job_and_emit for
\* the transcription stage, the final block.
process_job_locks ==
  Section("config") \o Section("index") \o Section("index") \o Section("index")

\* The stderr reader of run_whisper_cpp: append_job_log for each line.
stderr_reader_locks == Repeat(Section("index"), MaxStderrLines)

\* summarize_job: the config block, the guard lookup, update_job_and_emit.
summarize_job_locks == Section("config") \o Section("index") \o Section("index")

\* summarize_job_internal: the lookup, the mark, the snapshot, the request
\* to the summarizer, the final update.
summarize_job_internal_locks ==
  Section("index") \o Section("index") \o Section("index") \o <<Work>>
  \o Section("index")

\* get_clip_path: the guard lives to the end of the function, across the
\* two ffmpeg runs.
get_clip_path_locks == <<Lock("index"), Work, Work, Unlock("index")>>

\* update_config, initialize_config, get_config.
config_command_locks == Section("config")

\* cancel_job, delete_job, create_job_from_path_inner, list_jobs, get_job.
index_command_locks == Section("index")

\* A start-download command, then its thread: download_to_file stores the
\* status after the response headers and after each chunk, the thread
\* stores the final status.
start_download_locks == Section("statuses")

download_thread_locks ==
  <<Work>> \o Section("statuses")
  \o Repeat(<<Work>> \o Section("statuses"), MaxChunks)
  \o Section("statuses")

LockThreads == {"worker", "stderr reader", "summarize_job", "summary thread",
                "get_clip_path", "config command", "index command",
                "start download", "download thread"}

Program(t) ==
  CASE t = "worker" -> process_job_locks
    [] t = "stderr reader" -> stderr_reader_locks
    [] t = "summarize_job" -> summarize_job_locks
    [] t = "summary thread" -> summarize_job_internal_locks
    [] t = "get_clip_path" -> get_clip_path_locks
    [] t = "config command" -> config_command_locks
    [] t = "index command" -> index_command_locks
    [] t = "start download" -> start_download_locks
    [] OTHER -> download_thread_locks

NoThread == ""

Returned(t) == threadAt[t] > Len(Program(t))

NextOp(t) == Program(t)[threadAt[t]]

Proceed(t) == threadAt' = [threadAt EXCEPT ![t] = @ + 1]

\* The threads of the set run, the others have returned.
LocksStart(running) ==
  /\ lockOwner = [l \in Locks |-> NoThread]
  /\ \E ts \in running :
       threadAt = [t \in LockThreads |->
                     IF t \in ts THEN 1 ELSE Len(Program(t)) + 1]

lockRest == <<storeVars, queueVars, workerVars, clock, stderrOpen, config, summ,
              budget, logVars, dlVars, fsVars, cmdVars>>

\* mutex.lock(): the thread goes on when the mutex is free.  std's Mutex is
\* not reentrant: a thread that holds it already waits too.
Acquire(t) ==
  /\ ~Returned(t)
  /\ NextOp(t).op = "lock"
  /\ lockOwner[NextOp(t).lock] = NoThread
  /\ lockOwner' = [lockOwner EXCEPT ![NextOp(t).lock] = t]
  /\ Proceed(t)
  /\ UNCHANGED lockRest

\* The guard goes out of scope or is dropped.
Release(t) ==
  /\ ~Returned(t)
  /\ NextOp(t).op = "unlock"
  /\ lockOwner' = [lockOwner EXCEPT ![NextOp(t).lock] = NoThread]
  /\ Proceed(t)
  /\ UNCHANGED lockRest

WorkStep(t) ==
  /\ ~Returned(t)
  /\ NextOp(t).op = "work"
  /\ Proceed(t)
  /\ UNCHANGED <<lockRest, lockOwner>>

\* ------------------------------------------------- URL resolution alone
\* The URLs a caller may pass: direct archives elsewhere and on GitHub,
\* release pages, a padded http URL, a blank.
ArmArchive == <<"whisper-", "macOS", "-", "arm64", ".zip">>
OtherArchive == <<"whisper-bin-", "x64", ".zip">>
RepoPath == <<"owner", "/", "repo">>
Tag == <<"v", "1.7.4">>

DirectUrl == <<"https://", "dl.example/">> \o ArmArchive
GitHubAssetUrl ==
  <<"https://", "github.com/">> \o RepoPath \o <<"/releases", "/download/">>
    \o Tag \o <<"/">> \o ArmArchive
LatestReleaseUrl ==
  <<"https://", "github.com/">> \o RepoPath \o <<"/releases", "/latest">>
ReleasesUrl == <<"https://", "github.com/">> \o RepoPath \o <<"/releases">>

UrlSamples ==
  {DirectUrl, GitHubAssetUrl, LatestReleaseUrl, ReleasesUrl,
   <<" ", "http://", "dl.example/", "tool", ".zip", " ">>, <<" ">>}

\* What the release API may answer.
Asset(name) == [name |-> name,
                url |-> <<"https://", "assets.example/">> \o name]

ApiAnswers ==
  {[kind |-> k, assets |-> <<>>] :
     k \in {"transport error", "status", "invalid json", "no assets"}}
  \cup {[kind |-> "assets", assets |-> a] :
          a \in {<<>>, <<Asset(OtherArchive)>>,
                 <<Asset(OtherArchive), Asset(ArmArchive)>>}}

\* What the releases page may hold: a link is an anchor on a download path.
Anchor(path) == <<"<a href=", "\"", "/">> \o RepoPath \o path \o <<"\"", ">">>
TagLink == Anchor(<<"/releases", "/tag/">> \o Tag)
DownloadLink(name) ==
  Anchor(<<"/releases", "/download/">> \o Tag \o <<"/">> \o name)

HtmlAnswers ==
  {[kind |-> k, body |-> <<>>] : k \in {"transport error", "status"}}
  \cup {[kind |-> "page", body |-> b] :
          b \in {<<>>, TagLink, TagLink \o DownloadLink(OtherArchive),
                 TagLink \o DownloadLink(OtherArchive)
                         \o DownloadLink(ArmArchive)}}

Networks == [api : ApiAnswers, html : HtmlAnswers, live : {{}, {5}, {2, 7}}]

ResolveUrl ==
  /\ call.op = "resolve_whisper_download_url"
  /\ call.pc = "call"
  /\ call' = [call EXCEPT !.pc = "returned",
                          !.out = resolve_whisper_download_url(call.arg.url,
                                                               call.arg.net)]
  /\ UNCHANGED callRest

\* ------------------------------------------------------- the specification
JobIds == 1..MaxJobs

NoBudget == [creates |-> 0, cancels |-> 0, deletes |-> 0, summarize |-> 0,
             stdout |-> 0, stderr |-> 0, faults |-> 0, saves |-> 0,
             clips |-> 0, stalls |-> 0, configs |-> 0]

\* ollama_base_url, ollama_model and summary_prompt of a configuration.
DefaultOllama == <<"http://localhost:11434", "llama3.1:8b", "default prompt">>
OtherOllama == <<"http://10.0.0.2:11434", "mistral", "other prompt">>

Configs == [enable_summarization : BOOLEAN, auto_summarize : BOOLEAN,
            model_size : {"small"}, ollama : {DefaultOllama}]

DefaultConfig == [enable_summarization |-> TRUE, auto_summarize |-> TRUE,
                  model_size |-> "small", ollama |-> DefaultOllama]

NoSummaries == [DefaultConfig EXCEPT !.enable_summarization = FALSE,
                                     !.auto_summarize = FALSE]

\* What update_config is called with.
NewConfigs ==
  {[enable_summarization |-> FALSE, auto_summarize |-> FALSE,
    model_size |-> "base", ollama |-> OtherOllama],
   [enable_summarization |-> TRUE, auto_summarize |-> TRUE,
    model_size |-> "large-v3", ollama |-> OtherOllama],
   [enable_summarization |-> TRUE, auto_summarize |-> FALSE,
    model_size |-> "small", ollama |-> DefaultOllama]}

\* The environments explored: the configuration, and what the requests, the
\* disk and the external tools may do in one run.
Env(b, c) == [budget |-> b, config |-> c]

\* Several jobs, tool failures and failing saves.
QueueEnv ==
  Env([NoBudget EXCEPT !.creates = MaxJobs, !.faults = MaxFaults,
                       !.saves = MaxSaveFails], NoSummaries)

\* Several jobs, deletions and tool failures.
DeleteEnv ==
  Env([NoBudget EXCEPT !.creates = MaxJobs, !.deletes = MaxDeletes,
                       !.faults = MaxFaults], NoSummaries)

\* Several jobs and cancel requests.
CancelQueueEnv ==
  Env([NoBudget EXCEPT !.creates = MaxJobs, !.cancels = MaxCancels], NoSummaries)

\* One job with subprocess output, tool failures and failing saves.
PipelineEnv ==
  Env([NoBudget EXCEPT !.creates = 1, !.stdout = MaxStdoutLines,
                       !.stderr = MaxStderrLines, !.faults = MaxFaults,
                       !.saves = MaxSaveFails], NoSummaries)

\* One job with subprocess output, cancel requests and failing saves.
CancelEnv ==
  Env([NoBudget EXCEPT !.creates = 1, !.stdout = MaxStdoutLines,
                       !.cancels = MaxCancels, !.saves = MaxSaveFails],
      NoSummaries)

\* One job with subprocess output, deleted at any moment.
DeleteOutputEnv ==
  Env([NoBudget EXCEPT !.creates = 1, !.deletes = MaxDeletes,
                       !.stdout = MaxStdoutLines, !.stderr = MaxStderrLines,
                       !.faults = MaxFaults], NoSummaries)

\* One job with summarize requests and failing saves, under every configuration.
SummaryEnvs ==
  {Env([NoBudget EXCEPT !.creates = 1, !.summarize = MaxSummarize,
                        !.saves = MaxSaveFails], c) : c \in Configs}

\* One job with summarize and cancel requests.
CancelSummaryEnv ==
  Env([NoBudget EXCEPT !.creates = 1, !.summarize = MaxSummarize,
                       !.cancels = MaxCancels], DefaultConfig)

\* Several jobs summarized automatically, with tool failures and failing saves.
AutoSummaryEnv ==
  Env([NoBudget EXCEPT !.creates = MaxJobs, !.faults = MaxFaults,
                       !.saves = MaxSaveFails], DefaultConfig)

QueueEnvs == {QueueEnv, DeleteEnv, CancelQueueEnv}

Environments ==
  QueueEnvs \cup {PipelineEnv, CancelEnv, CancelSummaryEnv, AutoSummaryEnv,
                  DeleteOutputEnv}
            \cup SummaryEnvs

Idling == {Env(NoBudget, DefaultConfig)}

LogIdle ==
  /\ testJob = test_job("job_1")
  /\ appended = 0

NoDownloads == [commands |-> {}, starts |-> 0, chunks |-> 0, faults |-> 0]

StartCommands == {"start_model_download", "start_whisper_download",
                  "start_ffmpeg_download"}

\* The download environments explored: requests for one artifact with a
\* transfer in chunks and failures, or requests for all artifacts.
DlProfiles ==
  {[commands |-> {c}, starts |-> MaxStarts, chunks |-> MaxChunks,
    faults |-> MaxDlFaults] : c \in StartCommands}
  \cup {[commands |-> StartCommands, starts |-> MaxStarts, chunks |-> 0,
         faults |-> 0]}

DlStart(b) ==
  /\ statuses = [k \in {} |-> k]
  /\ dlThreads = EmptyBag
  /\ artifacts = [p \in Paths |-> <<>>]
  /\ dlReply = [seq |-> 0, cmd |-> "", key |-> "", ok |-> TRUE, status |-> <<>>,
                err |-> ""]
  /\ dlBudget \in b

StoreStart(envs) ==
  /\ \E env \in envs : budget = env.budget /\ config = env.config
  /\ jobs = <<>>
  /\ disk = [valid |-> TRUE, jobs |-> <<>>]
  /\ queue = <<>>
  /\ clock = 0
  /\ worker = Idle
  /\ stderrOpen = {}
  /\ summ = EmptyBag
  /\ emittedUpdated = {}
  /\ emittedLog = {}
  /\ savedEver = {}
  /\ enqueued = <<>>
  /\ began = <<>>
  /\ returned = <<>>
  /\ erred = {}
  /\ saveFails = budget.saves
  /\ jobFiles = {}
  /\ clip = NoClip
  /\ ret = NoReturn

JobsStart(envs) == StoreStart(envs) /\ LocksStart({{}})

Init == JobsStart(Environments) /\ LogIdle /\ Uncalled /\ DlStart({NoDownloads})

WorkerNext ==
  \/ WorkerDequeue
  \/ WorkerStart
  \/ WorkerStartEmit
  \/ WorkerConvert
  \/ WorkerTranscribe
  \/ WorkerWhisperSpawn
  \/ WorkerStdoutLine
  \/ WorkerStdoutLog
  \/ WorkerWhisperExit
  \/ WorkerOutputs
  \/ WorkerStubEmit
  \/ WorkerDoneEmit

\* The steps of the summarization activities under way.
SummThreadNext ==
  \/ \E t \in BagToSet(summ) : SummarizeJobMark(t)
  \/ \E t \in BagToSet(summ) : SummGuard(t)
  \/ \E t \in BagToSet(summ) : SummMark(t)
  \/ \E t \in BagToSet(summ) : SummSnapshot(t)
  \/ \E t \in BagToSet(summ) : SummFinal(t)

SummNext ==
  \/ \E id \in JobIds : summarize_job(id)
  \/ SummThreadNext

Next ==
  \/ CreateJob
  \/ \E id \in JobIds : cancel_job(id)
  \/ \E id \in JobIds : delete_job(id)
  \/ WorkerNext
  \/ \E id \in JobIds : StderrLine(id)
  \/ SummNext

Spec == Init /\ [][Next]_vars

\* The queue on its own: submissions, cancel and delete requests, and a
\* worker whose subprocesses print nothing.  The worker thread keeps running
\* and every external step of it ends.
InitQueue == JobsStart(QueueEnvs) /\ LogIdle /\ Uncalled /\ DlStart({NoDownloads})

WorkerQueueNext ==
  \/ WorkerDequeue
  \/ WorkerStart
  \/ WorkerStartEmit
  \/ WorkerConvert
  \/ WorkerTranscribe
  \/ WorkerWhisperSpawn
  \/ WorkerWhisperExit
  \/ WorkerOutputs
  \/ WorkerStubEmit
  \/ WorkerDoneEmit

NextQueue ==
  \/ CreateJob
  \/ \E id \in JobIds : cancel_job(id)
  \/ \E id \in JobIds : delete_job(id)
  \/ WorkerQueueNext

FairSpecQueue == InitQueue /\ [][NextQueue]_vars /\ WF_vars(WorkerQueueNext)

\* Summarization on its own: jobs summarized automatically or on request.
\* The worker and the summarization threads keep running, and the generation
\* request of a thread ends (it has a timeout).
InitSummary ==
  JobsStart({AutoSummaryEnv} \cup SummaryEnvs) /\ LogIdle /\ Uncalled /\ DlStart({NoDownloads})

NextSummary ==
  \/ CreateJob
  \/ WorkerQueueNext
  \/ SummNext

FairSpecSummary ==
  InitSummary /\ [][NextSummary]_vars
    /\ WF_vars(WorkerQueueNext) /\ WF_vars(SummThreadNext)

\* Clips requested while the worker runs a job.  Whoever needs the index lock
\* waits while get_clip_path holds it.
ClipEnv ==
  Env([NoBudget EXCEPT !.creates = MaxJobs, !.clips = MaxClips,
                       !.faults = MaxFaults], NoSummaries)

InitClip == JobsStart({ClipEnv}) /\ LogIdle /\ Uncalled /\ DlStart({NoDownloads})

NextClip ==
  \/ \E id \in JobIds : get_clip_path(id)
  \/ ClipResolve
  \/ ClipVersion
  \/ ClipCut
  \/ ~HoldsIndex(clip) /\ CreateJob
  \/ ~HoldsIndex(clip) /\ WorkerQueueNext

SpecClip == InitClip /\ [][NextClip]_vars

\* Submissions that read the same microsecond twice, and the worker.
IdEnv ==
  Env([NoBudget EXCEPT !.creates = MaxJobs, !.stalls = MaxStalls,
                       !.faults = MaxFaults], NoSummaries)

InitIds == JobsStart({IdEnv}) /\ LogIdle /\ Uncalled /\ DlStart({NoDownloads})

NextIds ==
  \/ CreateJob
  \/ WorkerQueueNext

SpecIds == InitIds /\ [][NextIds]_vars

\* The index round trip on its own, for every index of a few jobs.
InitIndex ==
  /\ JobsStart(Idling) /\ LogIdle /\ DlStart({NoDownloads})
  /\ \E index \in SeqsUpTo(SampleJobs, MaxIndexJobs) :
       call = [NoCall EXCEPT !.op = "index_persistence_roundtrip", !.pc = "save",
                             !.arg = index]

NextIndex ==
  \/ RoundtripSave
  \/ RoundtripLoad

SpecIndex == InitIndex /\ [][NextIndex]_vars

\* The resolvers on their own, in every surrounding.
InitResolve ==
  /\ JobsStart(Idling) /\ LogIdle /\ DlStart({NoDownloads})
  /\ \E op \in {"resolve_whisper_paths", "resolve_ffmpeg_path"},
        env \in Surroundings :
       call = [NoCall EXCEPT !.op = op, !.pc = "call", !.arg = env]

NextResolve ==
  \/ ResolveWhisper
  \/ ResolveFfmpeg

SpecResolve == InitResolve /\ [][NextResolve]_vars

\* get_segments on its own, for a few segments in every shape.
InitSegments ==
  /\ JobsStart(Idling) /\ LogIdle /\ DlStart({NoDownloads})
  /\ \E shape \in Shapes, segs \in SeqsUpTo(SampleSegments, MaxSegments) :
       call = [NoCall EXCEPT !.op = "get_segments", !.pc = "call",
                             !.arg = [shape |-> shape, segs |-> segs]]

SpecSegments == InitSegments /\ [][GetSegments]_vars

\* The configuration updated while jobs are processed and summarized.
ConfigEnvs ==
  {Env([NoBudget EXCEPT !.creates = 1, !.configs = MaxConfigs,
                        !.faults = MaxFaults, !.summarize = MaxSummarize], c) :
     c \in {DefaultConfig, NoSummaries}}

InitConfig == JobsStart(ConfigEnvs) /\ LogIdle /\ Uncalled /\ DlStart({NoDownloads})

NextConfig ==
  \/ CreateJob
  \/ \E cfg \in NewConfigs : update_config(cfg)
  \/ WorkerQueueNext
  \/ SummNext

SpecConfig == InitConfig /\ [][NextConfig]_vars

\* resolve_whisper_download_url on its own, for every URL and network.
InitResolveUrl ==
  /\ JobsStart(Idling) /\ LogIdle /\ DlStart({NoDownloads})
  /\ \E url \in UrlSamples, net \in Networks :
       call = [NoCall EXCEPT !.op = "resolve_whisper_download_url",
                             !.pc = "call",
                             !.arg = [url |-> url, net |-> net]]

SpecResolveUrl == InitResolveUrl /\ [][ResolveUrl]_vars

\* The stdout reader of one job with its progress in f32.
InitProgress ==
  /\ JobsStart(Idling) /\ LogIdle /\ DlStart({NoDownloads})
  /\ call = [NoCall EXCEPT !.op = "run_whisper_cpp", !.pc = "stdout",
                           !.out = F32_0_3]

NextProgress ==
  \/ ReadProgressLine
  \/ ProgressExit

SpecProgress == InitProgress /\ [][NextProgress]_vars

\* The lock operations of the threads on their own: any MaxLockThreads of
\* them run together.
InitLocks ==
  /\ StoreStart(Idling) /\ LogIdle /\ Uncalled /\ DlStart({NoDownloads})
  /\ LocksStart({ts \in SUBSET LockThreads : Cardinality(ts) = MaxLockThreads})

NextLocks ==
  \/ \E t \in LockThreads : Acquire(t)
  \/ \E t \in LockThreads : Release(t)
  \/ \E t \in LockThreads : WorkStep(t)

SpecLocks == InitLocks /\ [][NextLocks]_vars

\* The log buffer test on its own.
InitLog == JobsStart(Idling) /\ LogIdle /\ Uncalled /\ DlStart({NoDownloads})

SpecLog == InitLog /\ [][PushLine]_vars

\* The download commands and threads on their own.
InitDownload ==
  /\ JobsStart(Idling)
  /\ LogIdle
  /\ Uncalled
  /\ DlStart(DlProfiles)

\* The steps of the download threads under way.
DlThreadNext ==
  \/ \E t \in BagToSet(dlThreads) : DlSend(t)
  \/ \E t \in BagToSet(dlThreads) : DlChunk(t)
  \/ \E t \in BagToSet(dlThreads) : DlBodyEnd(t)
  \/ \E t \in BagToSet(dlThreads) : DlFail(t)
  \/ \E t \in BagToSet(dlThreads) : DlFinalize(t)
  \/ \E t \in BagToSet(dlThreads) : DlPublish(t)

NextDownload ==
  \/ \E model_size \in ModelSizes : start_model_download(model_size)
  \/ \E url \in Urls : start_whisper_download(url)
  \/ \E url \in Urls : start_ffmpeg_download(url)
  \/ DlThreadNext

SpecDownload == InitDownload /\ [][NextDownload]_vars

\* Downloads of one artifact whose threads keep running: the HTTP transfer
\* ends, and so do the file operations and the version check that follow it.
TransferProfiles ==
  {[commands |-> {c}, starts |-> MaxStarts - 1, chunks |-> MaxChunks - 1,
    faults |-> MaxDlFaults] : c \in StartCommands}

InitTransfer ==
  /\ JobsStart(Idling)
  /\ LogIdle
  /\ Uncalled
  /\ DlStart(TransferProfiles)

FairSpecTransfer ==
  InitTransfer /\ [][NextDownload]_vars /\ WF_vars(DlThreadNext)

\* ------------------------------------------------------------- properties
IsPrefix(a, b) == Len(a) <= Len(b) /\ SubSeq(b, 1, Len(a)) = a

Triple(job) == <<job.status, job.stage, job.progress>>

\* C1: jobs are processed one at a time in enqueue order: when process_job
\* has begun for a job, it has returned for every job enqueued before it
\* and each of those jobs has a terminal status.
C1_OneAtATimeUntilTerminal ==
  /\ IsPrefix(began, enqueued)
  /\ IsPrefix(returned, began)
  /\ Len(began) <= Len(returned) + 1
  /\ \A k \in 1..(Len(began) - 1) :
       HasJob(jobs, began[k]) => JobOf(jobs, began[k]).status \in Terminal

\* C2: the consumer never stops: ids are taken in enqueue order, and
\* every enqueued id is eventually handed to process_job, whatever way
\* process_job ended for the ids before it.
C2_QueueNeverStops ==
  /\ [](IsPrefix(began, enqueued) /\ worker.pc # "stopped")
  /\ \A k \in 1..MaxJobs : (Len(enqueued) >= k) ~> (Len(began) >= k)

C2_Witness ==
  /\ Len(began) = 2
  /\ began[1] \in erred

\* C3: when process_job returns Err for a job that is in the index, that
\* job is left with status error and stage error.
C3_ErrRecorded ==
  [][\A id \in JobIds :
       (id \in erred' /\ id \notin erred /\ HasJob(jobs', id))
         => /\ JobOf(jobs', id).status = "error"
            /\ JobOf(jobs', id).stage = "error"]_vars

\* C4: every job:updated payload raised so far is a job state that a
\* successful save of the index document had written before.
C4_SaveBeforeNotify == emittedUpdated \subseteq savedEver

\* A save has failed: the job in memory was never written nor announced,
\* while earlier and later states of it were.
C4_Witness ==
  /\ saveFails < budget.saves
  /\ \E job \in JobStates(jobs) :
       /\ job \notin savedEver
       /\ job \notin emittedUpdated
       /\ job.status = "cancelled"
  /\ \E job \in emittedUpdated : job.progress > 300

StatusEdges == {<<"queued", "running">>, <<"running", "done">>,
                <<"running", "error">>, <<"queued", "cancelled">>,
                <<"running", "cancelled">>}

\* C5: a job's status only changes along queued->running, running->done,
\* running->error, queued->cancelled, running->cancelled.
C5_StatusTransitions ==
  [][\A id \in JobIds :
       (HasJob(jobs, id) /\ HasJob(jobs', id))
         => \/ JobOf(jobs', id).status = JobOf(jobs, id).status
            \/ <<JobOf(jobs, id).status, JobOf(jobs', id).status>>
                 \in StatusEdges]_vars

\* C6: while process_job runs for a job (after it has set progress 0.1),
\* the stored progress of that job never decreases.
C6_ProgressMonotonic ==
  [][(worker.pc \notin {"idle", "start"}
        /\ HasJob(jobs, worker.job_id) /\ HasJob(jobs', worker.job_id))
       => JobOf(jobs', worker.job_id).progress
            >= JobOf(jobs, worker.job_id).progress]_vars

SuccessStep(old, new) ==
  \/ old = new
  \/ old = <<"queued", "import", 0>> /\ new = <<"running", "convert", 100>>
  \/ old = <<"running", "convert", 100>>
       /\ new = <<"running", "transcribe", 300>>
  \/ /\ old[1] = "running" /\ old[2] = "transcribe"
     /\ new[1] = "running" /\ new[2] = "transcribe"
     /\ new[3] >= 300 /\ new[3] <= 900
  \/ /\ old[1] = "running" /\ old[2] = "transcribe"
     /\ new = <<"done", "done", 1000>>

InLog(job, line) == \E i \in 1..Len(job.logs) : job.logs[i] = line

C7_LogBounded ==
  LET n == Len(testJob.logs) IN
  /\ n <= LogCap
  /\ n = Min(appended, LogCap)
  /\ \A i \in 1..n : testJob.logs[i] = LogLine(appended - n + i - 1)

C7_Witness ==
  /\ appended = LogCap + 100
  /\ Len(testJob.logs) = LogCap
  /\ testJob.logs[1] = LogLine(100)
  /\ testJob.logs[LogCap] = LogLine(LogCap + 99)

\* A step that answers a start-download request for a key that is downloading.
StartWhileDownloading ==
  /\ dlReply'.seq # dlReply.seq
  /\ StateOf(statuses, dlReply'.key) = "downloading"

\* C8 as stated: every start-download request for a key that is downloading
\* returns the stored status, leaves the map alone and spawns no thread.
C8_Original ==
  [][StartWhileDownloading =>
       /\ dlReply'.ok
       /\ dlReply'.status = <<statuses[dlReply'.key]>>
       /\ statuses' = statuses
       /\ dlThreads' = dlThreads]_vars

PreparationErrors == {"Whisper download URL is empty.",
                      "failed to create whisper bin dir",
                      "FFmpeg download URL is empty.",
                      "failed to create ffmpeg bin dir"}

\* C8: a start-download request for a key that is downloading leaves the
\* map alone and spawns no thread; it returns the stored status, unless its
\* own preparation fails (empty or unresolvable URL, directory not created),
\* in which case it returns an error.
C8_CoalescedStart ==
  [][StartWhileDownloading =>
       /\ dlReply'.ok => dlReply'.status = <<statuses[dlReply'.key]>>
       /\ ~dlReply'.ok => dlReply'.err \in PreparationErrors
       /\ statuses' = statuses
       /\ dlThreads' = dlThreads]_vars

\* A coalesced request was answered with a status that a thread has updated.
C8_Witness ==
  /\ dlReply.ok
  /\ dlReply.seq > 1
  /\ StateOf(statuses, dlReply.key) = "downloading"
  /\ dlReply.status = <<statuses[dlReply.key]>>
  /\ dlReply.status[1].downloaded_bytes > 0
  /\ BagCardinality(dlThreads) = 1

Keys == ModelSizes \cup {whisper_binary_status_key, ffmpeg_status_key}

ThreadsOf(key) == {t \in BagToSet(dlThreads) : t.key = key}

ActiveThreads(key) ==
  LET S == ThreadsOf(key) IN
  IF S = {} THEN 0
  ELSE LET Sum[T \in SUBSET S] ==
             IF T = {} THEN 0
             ELSE LET t == CHOOSE t \in T : TRUE
                  IN CopiesIn(t, dlThreads) + Sum[T \ {t}]
       IN Sum[S]

\* C9: at most one download thread is active per artifact key, and one is
\* active exactly while the status of the key is 'downloading'.
C9_OneDownloadPerKey ==
  \A key \in Keys :
    ActiveThreads(key) = IF StateOf(statuses, key) = "downloading" THEN 1 ELSE 0

\* A second download of a key runs after the first one has ended.
C9_Witness ==
  \E t \in BagToSet(dlThreads) :
    /\ t.result_status.started_at[1] > 1
    /\ t.pc = "body"
    /\ ActiveThreads(t.key) = 1
    /\ dlReply.key = t.key
    /\ dlReply.seq = 3

\* The worker has stored done on the normal path for this job and is about
\* to announce it, with these summarization toggles in its snapshot.
Completing(id, enable, auto) ==
  /\ worker.pc = "done_emit"
  /\ worker.job_id = id
  /\ worker.snap # <<>>
  /\ worker.enable = enable
  /\ worker.auto = auto

SummaryOf(id) == IF HasJob(jobs, id) THEN JobOf(jobs, id).summary_status
                                     ELSE "deleted"

\* C11: when a job completes its pipeline with summarization enabled but
\* not automatic, its summary_status is not_started; with automatic
\* summarization its summary_status eventually becomes done or error.
C11_SummaryOutcome ==
  /\ [](\A id \in JobIds :
          Completing(id, TRUE, FALSE) =>
            worker.snap[1].summary_status = "not_started")
  /\ \A id \in JobIds :
       Completing(id, TRUE, TRUE) ~> (SummaryOf(id) \in {"done", "error", "deleted"})

\* The worker looks up the output files of a job still in the store and
\* finds the engine left none of them.
OutputsAbsent(id) ==
  /\ worker.pc = "outputs"
  /\ worker.job_id = id
  /\ worker' # worker
  /\ HasJob(jobs, id)
  /\ Written(id, WhisperOutputs) \cap jobFiles' = {}

PlaceholderFiles == {"transcript.txt", "segments.json", "transcript.srt"}

\* The job is done with its three paths on written placeholder files.
StubCompleted(index, files, id) ==
  LET job == JobOf(index, id)
      paths == <<job.transcript_txt_path, job.transcript_json_path,
                 job.transcript_srt_path>>
  IN /\ job.status = "done" /\ job.stage = "done" /\ job.progress = 1000
     /\ {paths[n] : n \in 1..3} = PlaceholderFiles
     /\ Written(id, paths) \subseteq files
     /\ job.md_preview = "Stub transcript from Rust core."
     /\ job.md_preview # "Transcript ready."

PipelineFields(job) == <<job.status, job.stage, job.progress>>

\* C13: the done state of a job has been saved when its automatic
\* summarization thread exists, and no step of summarize_job or
\* summarize_job_internal changes a job's status, stage or progress.
C13_SummaryDecoupled ==
  /\ [](\A t \in BagToSet(summ) :
          ~t.force => \E s \in savedEver :
                        s.id = t.job_id /\ s.status = "done" /\ s.stage = "done")
  /\ [][summ' # summ =>
          \A id \in JobIds :
            (HasJob(jobs, id) /\ HasJob(jobs', id)) =>
              PipelineFields(JobOf(jobs', id)) = PipelineFields(JobOf(jobs, id))]_vars

\* A run ended in error and the job is still done at full progress.
C13_Witness ==
  \E id \in JobIds :
    /\ HasJob(jobs, id)
    /\ JobOf(jobs, id).summary_status = "error"
    /\ PipelineFields(JobOf(jobs, id)) = <<"done", "done", 1000>>

\* Summarization runs of a job whose generation request is under way.
RECURSIVE Total(_, _)
Total(threads, bag) ==
  IF threads = {} THEN 0
  ELSE LET t == CHOOSE x \in threads : TRUE
       IN CopiesIn(t, bag) + Total(threads \ {t}, bag)

InFlight(id) ==
  Total({t \in BagToSet(summ) : t.job_id = id /\ t.pc = "final"}, summ)

\* C14: at most one summarization run is in flight per job at a time,
\* whatever the interleaving of summarize_job requests and the worker's
\* automatic summarization.
C14_OneRunPerJob == \A id \in JobIds : InFlight(id) <= 1

\* C15: no thread runs a subprocess or a network request while it holds the
\* job-index lock, the config lock or the artifact-status lock.  The worker,
\* the summarization threads and the download threads take a lock only
\* inside one step; get_clip_path keeps the index lock across its steps.
C15_NoLockAcrossSubprocess == ~(InSubprocess(clip) /\ HoldsIndex(clip))

\* C16: no two jobs of the store share an id, whatever the sequence of
\* create_job_from_path and add_files calls, within one clock tick too.
C16_UniqueIds ==
  \A i, j \in DOMAIN jobs : i # j => jobs[i].id # jobs[j].id

Probed ==
  IF call.op = "resolve_whisper_paths"
    THEN Range(WhisperBinCandidates(call.arg))
           \cup Range(WhisperModelCandidates(call.arg, call.arg.model_size))
    ELSE Range(FfmpegCandidates(call.arg))

NothingInstalled ==
  /\ call.op \in {"resolve_whisper_paths", "resolve_ffmpeg_path"}
  /\ call.pc = "returned"
  /\ call.arg.whisper_path = <<>> /\ call.arg.whisper_model = <<>>
  /\ call.arg.ffmpeg_path = <<>>
  /\ Probed \cap call.arg.files = {}

\* C18: with no override set and nothing at any candidate location the
\* resolvers fail, and their error message lists every path probed.
C18_ErrorListsProbed ==
  NothingInstalled => (~call.out.ok /\ Probed \subseteq Range(call.out.err))

\* C19: get_segments returns the same (start, end, text) triples in seconds
\* for the same segments in each of the three transcript shapes, segments
\* with an empty or blank text included.
C19_SameTriples ==
  (call.op = "get_segments" /\ call.pc = "returned") =>
     call.out = <<"Ok", call.arg.segs>>

AtStart == worker.at_start[1]

\* C20: the configuration of a job is the one read when process_job starts:
\* an update_config during the run changes neither the model resolved, nor
\* whether the automatic summarization is scheduled, nor the URL, model and
\* prompt it is given.
C20_ConfigSnapshot ==
  /\ [](worker.model # "" => worker.model = model_name(AtStart.model_size))
  /\ [][(worker.pc = "done_emit" /\ worker'.pc # "done_emit") =>
          summ' = IF AtStart.enable_summarization /\ AtStart.auto_summarize
                    THEN summ (+) SetToBag({[job_id |-> worker.job_id,
                                             force |-> FALSE, pc |-> "guard",
                                             ollama |-> AtStart.ollama]})
                    ELSE summ]_vars

\* The configuration was replaced during the run, before the model is
\* resolved and the summarization scheduled.
C20_Witness ==
  /\ worker.pc = "whisper"
  /\ worker.at_start # <<>>
  /\ config.model_size # AtStart.model_size
  /\ config.ollama # AtStart.ollama
  /\ config.enable_summarization # AtStart.enable_summarization

\* ------------------------------------------------------------------- C21
\* A step of cancel_job: the only step that spends a cancel request.
CancelStep == budget'.cancels < budget.cancels

\* The pipeline executing for this job.
Executing(id) == worker.job_id = id /\ worker.pc \notin {"idle", "stopped"}

\* The job is cancelled in memory, every other job and the pipeline left as
\* they were; the pipeline can still take its next step.
MarkedCancelled(id) ==
  LET i == IndexOf(jobs, id) IN
  /\ Len(jobs') = Len(jobs)
  /\ jobs'[i].status = "cancelled" /\ jobs'[i].stage = "cancelled"
  /\ jobs'[i].logs = push_log(jobs[i], "Job cancelled.").logs
  /\ \A k \in 1..Len(jobs) : k # i => jobs'[k] = jobs[k]
  /\ UNCHANGED <<workerVars, queueVars, stderrOpen, summ>>
  /\ Executing(id) => (ENABLED WorkerNext)'

SavedAndTrue ==
  /\ disk' = [valid |-> TRUE, jobs |-> jobs']
  /\ ret'.result = "Ok(true)"

UnknownId ==
  /\ ret'.result = "Ok(false)"
  /\ UNCHANGED <<jobs, disk, savedEver, emittedUpdated, emittedLog, jobFiles>>

\* C21 as stated: cancel_job on an existing job marks it cancelled, appends
\* 'Job cancelled.', saves the index and returns true without stopping the
\* pipeline; on an unknown id it returns false and changes nothing.
C21_Original ==
  [][CancelStep =>
       IF HasJob(jobs, ret'.id)
         THEN MarkedCancelled(ret'.id) /\ SavedAndTrue
         ELSE UnknownId]_vars

\* C21 amended: cancel_job on an existing job marks it cancelled and appends
\* 'Job cancelled.' without stopping the pipeline; it saves the index and
\* returns true, or, when the save fails, returns an error with no event
\* emitted; on an unknown id it returns false and changes nothing.
C21_CancelJob ==
  [][CancelStep =>
       IF HasJob(jobs, ret'.id)
         THEN /\ MarkedCancelled(ret'.id)
              /\ \/ SavedAndTrue
                 \/ /\ ret'.result = "Err"
                    /\ disk' # [valid |-> TRUE, jobs |-> jobs']
                    /\ emittedUpdated' = emittedUpdated
         ELSE UnknownId]_vars

\* A job cancelled while its pipeline was executing, which the pipeline has
\* since taken to done.
C21_Witness ==
  /\ ret.result = "Ok(true)"
  /\ HasJob(jobs, ret.id)
  /\ JobOf(jobs, ret.id).status = "done"
  /\ InLog(JobOf(jobs, ret.id), "Job cancelled.")
  /\ InLog(JobOf(jobs, ret.id), "Whisper finished.")

\* ------------------------------------------------------------------- C22
\* The messages of the four stage failures of process_job.
StageFailures == {"FFmpeg not found.", "ffmpeg convert failed",
                  "Whisper binary/model not found.", "whisper failed"}

\* A step of the pipeline in which a stage fails.
StageFailureStep ==
  /\ worker.pc \in {"convert", "whisper", "stdout"}
  /\ budget'.faults < budget.faults

\* The job has a stage failure in its log.
FailedStage(job) == \E m \in StageFailures : InLog(job, m)

RunEnds(t) ==
  /\ t.pc \in {"snapshot", "final"}
  /\ summ' = Drop(t)

\* C23: when a summarization run that has set summary_status to 'running'
\* ends, whether it succeeded or failed, the job's summary_status is no
\* longer 'running', and after a failure it is 'error' with summary_error
\* set.
C23_FailureRecorded ==
  [][\A t \in BagToSet(summ) :
       RunEnds(t) /\ HasJob(jobs', t.job_id) =>
         LET job == JobOf(jobs', t.job_id) IN
         /\ job.summary_status # "running"
         /\ job.summary_status = "error" => job.summary_error # ""]_vars

\* ------------------------------------------------------------------- C24
InitialMessages == {"Downloading FFmpeg", "Downloading whisper.cpp binary"}
                   \cup {"Downloading " \o model_filename(m) : m \in ModelSizes}

\* What one step may do to the status of a key and to its thread.
LifecycleStep(key) ==
  LET old == StateOf(statuses, key)
      new == StateOf(statuses', key)
  IN /\ old = "idle" => new \in {"idle", "downloading"}
     /\ old = "downloading" =>
          /\ new \in {"downloading", "done", "error"}
          /\ new = "downloading" =>
               statuses'[key].downloaded_bytes >= statuses[key].downloaded_bytes
     /\ old \in {"done", "error"} => new \in {old, "downloading"}
     /\ old = "downloading" /\ new = "error" =>
          /\ statuses'[key].message # <<>>
          /\ statuses'[key].message[1] \notin InitialMessages
     /\ old = "downloading" /\ new = "done" =>
          \E t \in ThreadsOf(key) :
            t.pc = "publish" /\ t.result_status = statuses'[key]
     /\ \A t \in BagToSet(dlThreads') \ BagToSet(dlThreads) :
          t.key = key /\ t.result_status.state = "done" =>
            artifacts'[DestPath(key)] = <<FileOf(t)>>

\* C24: the status of a key follows idle -> downloading -> {done | error}
\* with downloaded_bytes never decreasing while downloading; a thread sets
\* 'done' only in the step that puts the artifact in place, 'error' carries
\* a message, and a key that is downloading eventually is done or in error.
C24_DownloadLifecycle ==
  /\ [][\A key \in Keys : LifecycleStep(key)]_vars
  /\ \A key \in Keys :
       (StateOf(statuses, key) = "downloading")
         ~> (StateOf(statuses, key) \in {"done", "error"})

\* A download that took a chunk and ended done with its file in place,
\* after an earlier download of the same key had ended in error.
C24_Witness ==
  \E key \in Keys :
    /\ StateOf(statuses, key) = "done"
    /\ statuses[key].downloaded_bytes > 0
    /\ artifacts[DestPath(key)] =
         <<[writer |-> statuses[key].started_at[1],
            bytes |-> statuses[key].downloaded_bytes]>>
    /\ dlReply.seq >= 2
    /\ dlBudget.faults < MaxDlFaults

\* ------------------------------------------------------------------- C25
\* C25: a start-download request for a key that is downloading leaves the
\* temporary file and the destination file of that key as they are.
C25_CoalescedLeavesFiles ==
  [][StartWhileDownloading =>
       /\ artifacts'[TmpPath(dlReply'.key)] = artifacts[TmpPath(dlReply'.key)]
       /\ artifacts'[DestPath(dlReply'.key)] = artifacts[DestPath(dlReply'.key)]]_vars

\* ------------------------------------------------------------------- C26
\* The call of resolve_whisper_download_url has returned.
UrlResolved ==
  call.op = "resolve_whisper_download_url" /\ call.pc = "returned"

\* The URL names an archive file directly: https, no blanks, ending in .zip.
DirectAssetUrl(url) ==
  /\ url # <<>> /\ url[1] = "https://"
  /\ " " \notin Range(url)
  /\ IsZip(url)

\* C26: a direct asset URL, one below github.com/<owner>/<repo>/releases/
\* download/ included, is returned unchanged and without a network request.
C26_DirectUrlUnchanged ==
  UrlResolved /\ DirectAssetUrl(call.arg.url) =>
    /\ call.out.ok
    /\ call.out.url = call.arg.url
    /\ call.out.asked = <<>>

\* ------------------------------------------------------------------- C27
\* The URL names a release page of a GitHub repository.
ReleasePage(url) == url \in {LatestReleaseUrl, ReleasesUrl}

\* The API call fails or yields no matching asset.
ApiYieldsNothing(api) ==
  \/ api.kind \in {"transport error", "status", "no assets"}
  \/ api.kind = "assets" /\ FirstAsset(api.assets) = <<>>

\* The page was fetched and holds no asset link.
PageWithoutLink(html) ==
  html.kind = "page" /\ ScanLinks(html.body, 1, <<>>) = <<>>

\* C27: for a release page the steps are tried in the order API, page scan,
\* candidate probes; a failed API step is followed by the page scan, a page
\* without asset link by the probes, and an error is returned only when
\* every step has failed, with the message asking for a direct asset URL.
C27_StepsInOrder ==
  UrlResolved /\ ReleasePage(call.arg.url) =>
    LET net == call.arg.net
        asked == call.out.asked
    IN /\ asked # <<>> /\ asked[1] = "api"
       /\ ApiYieldsNothing(net.api) => Len(asked) >= 2 /\ asked[2] = "html"
       /\ (ApiYieldsNothing(net.api) /\ PageWithoutLink(net.html)
             /\ extract_latest_tag(net.html.body) # <<>>) =>
            Len(asked) >= 3 /\ asked[3] = "probe"
       /\ ~call.out.ok => call.out.err = NoAssetFound

\* ------------------------------------------------------------------- C28
\* What extract_ffmpeg_zip reports for an archive that lacks an entry.
EntryMissing == {"ffmpeg binary not found in zip.",
                 "ffprobe binary not found in zip."}

\* The transcoder thread t has just found its archive to lack an entry.
BundleIncomplete(t) ==
  /\ t.key = ffmpeg_status_key
  /\ t.pc = "publish"
  /\ t.result_status.message # <<>>
  /\ t.result_status.message[1] \in EntryMissing

\* C28: when the archive lacks the ffmpeg or the ffprobe entry the install
\* ends in error and has written neither bin/ffmpeg nor bin/ffprobe.
C28_AllOrNothing ==
  [][\A t \in BagToSet(dlThreads') \ BagToSet(dlThreads) :
       BundleIncomplete(t) =>
         /\ t.result_status.state = "error"
         /\ artifacts'[DestPath(ffmpeg_status_key)]
              = artifacts[DestPath(ffmpeg_status_key)]
         /\ artifacts'[ProbePath] = artifacts[ProbePath]]_vars

\* ------------------------------------------------------------------- C29
\* The number the first percentage token of a line carries, as printed.
RawPercent(line) ==
  LET P == {i \in 1..Len(line) : line[i].pct /\ line[i].parses}
  IN line[CHOOSE i \in P : \A k \in P : i <= k].val

HasPercent(line) == \E i \in 1..Len(line) : line[i].pct /\ line[i].parses

Clamp(p) == IF p < 0 THEN 0 ELSE IF p > 100 THEN 100 ELSE p

\* 0.30 + c / 100 * 0.60 as a count of 2^-26, rounded down.
Exact(c) == (300 + 6 * c) * 67108 + ((300 + 6 * c) * 864) \div 1000

\* The reader has just stored the progress of a line with a percentage.
JustMapped ==
  /\ call.op = "run_whisper_cpp"
  /\ call.pc = "stdout"
  /\ call.arg # <<>>
  /\ HasPercent(call.arg[Len(call.arg)])

\* The stored value is the claimed one up to one f32 rounding step (2^-24).
StoredAsClaimed ==
  LET want == Exact(Clamp(RawPercent(call.arg[Len(call.arg)])))
  IN call.out - want <= 4 /\ want - call.out <= 4

\* C29 as stated: the progress stored for a line with percentage p is
\* 0.30 + clamp(p, 0, 100) / 100 * 0.60 and lies in [0.30, 0.90]; the
\* progress of the job is within [0.0, 1.0] in every state.
C29_Original ==
  call.op = "run_whisper_cpp" =>
    /\ JustMapped =>
         /\ StoredAsClaimed
         /\ 10 * call.out >= 3 * F32One
         /\ 10 * call.out <= 9 * F32One
    /\ call.out >= 0 /\ call.out <= F32One

\* C29 amended: the stored progress is the f32 value of 0.30 +
\* clamp(p, 0, 100) / 100 * 0.60 and lies in [0.30, 0.90] widened by one
\* f32 rounding step at the upper end (0.90000004 for p >= 100); the
\* progress of the job is within [0.0, 1.0] in every state.
C29_MappedProgress ==
  call.op = "run_whisper_cpp" =>
    /\ JustMapped =>
         /\ StoredAsClaimed
         /\ 10 * call.out >= 3 * F32One
         /\ 10 * call.out <= 9 * F32One + 40
    /\ call.out >= 0 /\ call.out <= F32One

\* A negative percentage was read, then one above 100: the progress stored
\* is the f32 sum of 0.3 and 0.6.
C29_Witness ==
  /\ JustMapped
  /\ Len(call.arg) = 2
  /\ RawPercent(call.arg[2]) > 100
  /\ HasPercent(call.arg[1]) /\ RawPercent(call.arg[1]) < 0
  /\ call.out = 60397980

\* ------------------------------------------------------------------- C30
\* A step of one of the two readers of the subprocess output: the stderr
\* thread appends a line, or the stdout loop appends the line it has read.
SubprocessLineStep ==
  \/ budget'.stderr < budget.stderr
  \/ worker.pc = "stdout_log" /\ worker'.pc # "stdout_log"

\* The job has had its terminal update.
Finished(job) ==
  \/ job.status \in {"done", "error"}
  \/ InLog(job, "Whisper finished.")
  \/ InLog(job, "Worker finished (stub).")

\* C30: no line of the subprocess output is appended to the log of a job
\* after its terminal update or after it has reached done or error.
C30_OutputBeforeTerminal ==
  [][SubprocessLineStep =>
       \A i \in 1..Len(jobs) :
         jobs'[i].logs # jobs[i].logs => ~Finished(jobs[i])]_vars

\* ------------------------------------------------------------------- C31
\* A step made of update_job_and_emit or append_job_log: one of process_job
\* between the start and the final block, or one of the stderr reader.
WorkerMutationStep ==
  /\ worker.pc \in {"convert", "transcribe", "whisper", "stdout", "stdout_log"}
  /\ worker' # worker

StderrStep == budget'.stderr < budget.stderr

NewEventFor(id) ==
  \/ \E job \in emittedUpdated' \ emittedUpdated : job.id = id
  \/ \E e \in emittedLog' \ emittedLog : e.id = id

\* C31: a store mutation addressed to an id that is not in the index leaves
\* the index and the document on disk unchanged and raises neither
\* job:updated nor job:log for that id.
C31_AbsentIdNoEffect ==
  [][/\ (WorkerMutationStep /\ ~HasJob(jobs, worker.job_id)) =>
          /\ UNCHANGED <<jobs, disk>>
          /\ ~NewEventFor(worker.job_id)
     /\ (StderrStep /\ \A id \in stderrOpen : ~HasJob(jobs, id)) =>
          /\ UNCHANGED <<jobs, disk>>
          /\ \A id \in stderrOpen : ~NewEventFor(id)]_vars

\* ------------------------------------------------------------------- C32
IdsOf(js) == [i \in 1..Len(js) |-> js[i].id]

CreateStep == budget'.creates < budget.creates

DeleteStep == budget'.deletes < budget.deletes

\* Ids are clock readings, so a later creation has the greater id.
NewestFirst == \A i, k \in 1..Len(jobs) : i < k => jobs[i].id > jobs[k].id

C33_CancelledStays ==
  [][\A job \in JobStates(jobs) :
       (job.status = "cancelled" /\ HasJob(jobs', job.id)) =>
         JobOf(jobs', job.id).status = "cancelled"]_vars

\* ------------------------------------------------------------------- C34
StagesOf(status) ==
  CASE status = "queued" -> {"import"}
    [] status = "running" -> {"convert", "transcribe"}
    [] OTHER -> {status}

\* C34: in every state the stage of each job fits its status: import when
\* queued, convert or transcribe when running, and the status itself when
\* done, error or cancelled.
C34_StatusStageConsistent ==
  \A job \in JobStates(jobs) : job.stage \in StagesOf(job.status)

\* ------------------------------------------------------------------- C35
\* C35: at most one job of the index has status running.
C35_OneRunning ==
  Cardinality({i \in 1..Len(jobs) : jobs[i].status = "running"}) <= 1

\* ------------------------------------------------------------------- C36
\* A state of the same job reached after state job: the log only grows, so
\* it holds the log of job and more.
LaterStateOf(job, other) ==
  /\ other.id = job.id
  /\ Len(other.logs) > Len(job.logs)
  /\ IsPrefix(job.logs, other.logs)

\* C36: job:updated payloads of one job are raised in the order in which
\* their states were saved: none is raised after the payload of a later
\* state of that job.
C36_EmitInSaveOrder ==
  [][\A job \in emittedUpdated' \ emittedUpdated :
       ~\E other \in emittedUpdated : LaterStateOf(job, other)]_vars

\* ------------------------------------------------------------------- C37
\* C37: whenever no thread holds the job-index lock, index.json holds the
\* index that is in memory.
C37_DiskEqualsMemory ==
  ~HoldsIndex(clip) => disk = [valid |-> TRUE, jobs |-> jobs]

\* ------------------------------------------------------------------- C38
Occurrences(q, id) == Cardinality({i \in 1..Len(q) : q[i] = id})

\* The worker has received the id and process_job has not marked the job yet.
Received(id) == worker.job_id = id /\ worker.pc = "start"

\* C38: a submission that returns an error adds no job to the store, and
\* every job of the store with status queued has its id exactly once in the
\* worker queue (in the channel, or just received by the worker).
C38_SubmissionAtomic ==
  /\ [](\A job \in JobStates(jobs) :
          job.status = "queued" =>
            Occurrences(queue, job.id) + (IF Received(job.id) THEN 1 ELSE 0) = 1)
  /\ [][(CreateStep /\ enqueued' = enqueued) => jobs' = jobs]_vars

\* ------------------------------------------------------------------- C39
HeldBy(t) == {l \in Locks : lockOwner[l] = t}

\* The thread is at a lock() of a mutex it cannot have.
Waiting(t) ==
  /\ ~Returned(t)
  /\ NextOp(t).op = "lock"
  /\ lockOwner[NextOp(t).lock] # NoThread

\* C39: no thread holds two of the three locks at once, none asks for a
\* lock it holds, and whenever a thread has not returned some thread can
\* take a step: there is no deadlock.
C39_NoDeadlock ==
  /\ \A t \in LockThreads :
       /\ Cardinality(HeldBy(t)) <= 1
       /\ Waiting(t) => lockOwner[NextOp(t).lock] # t
  /\ (\E t \in LockThreads : ~Returned(t)) => ENABLED NextLocks

\* The three locks are held by three threads at once, one of them
\* get_clip_path in the middle of its ffmpeg runs, and nothing is stuck.
C39_Witness ==
  /\ lockOwner["index"] = "get_clip_path"
  /\ NextOp("get_clip_path").op = "work"
  /\ lockOwner["config"] = "worker"
  /\ lockOwner["statuses"] = "download thread"

\* ------------------------------------------------------------------- C40
\* The download of the thread has ended in error and its destination was
\* installed when the command was issued.
FailedOverInstall(t) ==
  /\ t.pc = "publish"
  /\ t.result_status.state = "error"
  /\ t.installed # <<>>

\* C40: when an artifact is installed at its destination and a later
\* start-download for it ends in error or is coalesced, the installed file
\* is still there, unchanged.
C40_InstallSurvives ==
  /\ [](\A t \in BagToSet(dlThreads) :
          FailedOverInstall(t) => artifacts[DestPath(t.key)] = t.installed)
  /\ [][(StartWhileDownloading /\ artifacts[DestPath(dlReply'.key)] # <<>>) =>
          artifacts'[DestPath(dlReply'.key)]
            = artifacts[DestPath(dlReply'.key)]]_vars

====
